---- MODULE Spec2Model ----
(***************************************************************************)
(* Juffi (JLess): a terminal viewer for JSON log files.                    *)
(*                                                                         *)
(* The module models the application state (JLessState), the filter/sort   *)
(* pipeline (JLessModel), the entries window (EntriesWindow: selection and *)
(* scroll reconciliation, row navigation, goto-line), the browse key       *)
(* handler (BrowseMode) and the control loop (JLess.run).                  *)
(*                                                                         *)
(* Strings are sequences of one-character strings, so that substring       *)
(* tests, lower-casing and lexicographic comparison are computed.          *)
(* Python's None is the model value NoneVal.                               *)
(***************************************************************************)
EXTENDS Integers, Sequences, FiniteSets, TLC

(***************************************************************************)
(* Bounds of the model.                                                    *)
(***************************************************************************)
\* most lines the input source ever delivers
MaxEntries == 4
\* most lines one read of the input source returns
MaxBatch == 2
\* height of the data window (rows of entries shown at once)
VisibleRows == 2
\* current_row is followed down to -MaxNegRow (set_data can lower it without
\* limit over repeated filter and sort changes)
MaxNegRow == 2
\* most entries in the specifications of the filter/sort pipeline
MaxModelEntries == 3

NoneVal == "None"

(***************************************************************************)
(* Characters and strings.                                                 *)
(***************************************************************************)
\* str.lower() on the characters that occur in the model
Lower(c) ==
  CASE c = "E" -> "e"
    [] c = "I" -> "i"
    [] OTHER -> c

LowerStr(s) == [i \in 1..Len(s) |-> Lower(s[i])]

\* Python's `sub in s` for strings
Contains(sub, s) ==
  \E i \in 0..(Len(s) - Len(sub)) : SubSeq(s, i + 1, i + Len(sub)) = sub

\* code points of the characters that occur in sort keys
Ord(c) ==
  CASE c = "E" -> 69
    [] c = "I" -> 73
    [] c = "e" -> 101
    [] c = "f" -> 102
    [] c = "i" -> 105
    [] c = "n" -> 110
    [] c = "r" -> 114
    [] OTHER -> 0

\* Python's `a < b` for strings: lexicographic by code point
RECURSIVE StrLess(_, _)
StrLess(a, b) ==
  IF b = <<>> THEN FALSE
  ELSE IF a = <<>> THEN TRUE
  ELSE IF Ord(Head(a)) # Ord(Head(b)) THEN Ord(Head(a)) < Ord(Head(b))
  ELSE StrLess(Tail(a), Tail(b))

Digits == <<"0", "1", "2", "3", "4", "5", "6", "7", "8", "9">>

\* str(n) for a non-negative integer
RECURSIVE IntToStr(_)
IntToStr(n) ==
  IF n < 10 THEN <<Digits[n + 1]>>
  ELSE IntToStr(n \div 10) \o <<Digits[(n % 10) + 1]>>

(***************************************************************************)
(* The input source: the lines it can deliver, with the result of          *)
(* json.loads on each, the native type of every value, and the instant     *)
(* _try_parse_datetime gives for the timestamp field (0 for None).         *)
(***************************************************************************)
\* {"level": "Err"}
ErrLine ==
  [raw |-> <<"{", "\"", "l", "e", "v", "e", "l", "\"", ":", " ",
             "\"", "E", "r", "r", "\"", "}">>,
   data |-> [level |-> <<"E", "r", "r">>],
   types |-> [level |-> "str"],
   timestamp |-> 0,
   valid |-> TRUE]

\* {"level": "inf"}
InfLine ==
  [raw |-> <<"{", "\"", "l", "e", "v", "e", "l", "\"", ":", " ",
             "\"", "i", "n", "f", "\"", "}">>,
   data |-> [level |-> <<"i", "n", "f">>],
   types |-> [level |-> "str"],
   timestamp |-> 0,
   valid |-> TRUE]

SourceLines == {ErrLine, InfLine}

\* {"timestamp": "2024-01-01 10:00:00"}: the timestamp parses
TsLine ==
  [raw |-> <<"{", "\"", "t", "i", "m", "e", "s", "t", "a", "m", "p", "\"", ":", " ",
             "\"", "2", "0", "2", "4", "-", "0", "1", "-", "0", "1", " ",
             "1", "0", ":", "0", "0", ":", "0", "0", "\"", "}">>,
   data |-> [timestamp |-> <<"2", "0", "2", "4", "-", "0", "1", "-", "0", "1", " ",
                             "1", "0", ":", "0", "0", ":", "0", "0">>],
   types |-> [timestamp |-> "str"],
   timestamp |-> 1,
   valid |-> TRUE]

\* {"timestamp": "inf"}: the timestamp does not parse
BadTsLine ==
  [raw |-> <<"{", "\"", "t", "i", "m", "e", "s", "t", "a", "m", "p", "\"", ":", " ",
             "\"", "i", "n", "f", "\"", "}">>,
   data |-> [timestamp |-> <<"i", "n", "f">>],
   types |-> [timestamp |-> "str"],
   timestamp |-> 0,
   valid |-> TRUE]

\* {"n": 1}
IntLine ==
  [raw |-> <<"{", "\"", "n", "\"", ":", " ", "1", "}">>,
   data |-> [n |-> 1],
   types |-> [n |-> "int"],
   timestamp |-> 0,
   valid |-> TRUE]

\* {"n": "E"}
StrLine ==
  [raw |-> <<"{", "\"", "n", "\"", ":", " ", "\"", "E", "\"", "}">>,
   data |-> [n |-> <<"E">>],
   types |-> [n |-> "str"],
   timestamp |-> 0,
   valid |-> TRUE]

\* a line of two spaces
BlankLine ==
  [raw |-> <<" ", " ">>,
   data |-> [message |-> <<>>],
   types |-> [message |-> "str"],
   timestamp |-> 0,
   valid |-> FALSE]

\* order of the keys inside one JSON object of the source
FieldNames == <<"level", "timestamp", "n">>

\* sequences of between lo and hi source lines
Batches(lo, hi) == UNION {[1..n -> SourceLines] : n \in lo..hi}

(***************************************************************************)
(* LogEntry                                                                *)
(***************************************************************************)
LogEntry(line, line_number) ==
  [line_number |-> line_number,
   raw_line |-> line.raw,
   data |-> line.data,
   types |-> line.types,
   timestamp |-> line.timestamp,
   is_valid_json |-> line.valid]

\* the native type of every field of an entry
EntryTypes(entry) == [k \in DOMAIN entry.data |-> entry.types[k]]

\* str(value) of a field the entry has
StrValue(entry, key) ==
  IF entry.types[key] = "int" THEN IntToStr(entry.data[key]) ELSE entry.data[key]

\* bool(value) of a field the entry has
Truthy(entry, key) ==
  IF entry.types[key] = "int" THEN entry.data[key] # 0 ELSE entry.data[key] # <<>>

get_value(entry, key) ==
  IF key = "#" THEN IntToStr(entry.line_number)
  ELSE IF key \notin DOMAIN entry.data THEN <<>>
  ELSE StrValue(entry, key)

\* Sort keys are tagged with the way Python compares them: num for int and
\* float keys (inf marks -math.inf), ts for a datetime (v is the instant),
\* otherwise a string.
get_sortable_value(entry, key, type) ==
  IF key = "#" THEN [num |-> TRUE, inf |-> FALSE, ts |-> FALSE, v |-> entry.line_number]
  ELSE IF key = "timestamp"
    THEN IF entry.timestamp # 0
           THEN [num |-> FALSE, inf |-> FALSE, ts |-> TRUE, v |-> entry.timestamp]
           ELSE [num |-> FALSE, inf |-> FALSE, ts |-> FALSE, v |-> <<>>]
  ELSE IF type = "NoneType"
    THEN [num |-> FALSE, inf |-> FALSE, ts |-> FALSE, v |-> <<"n", "u", "l", "l">>]
  ELSE IF key \notin DOMAIN entry.data
    THEN IF type \in {"int", "float"}
           THEN [num |-> TRUE, inf |-> TRUE, ts |-> FALSE, v |-> 0]
           ELSE [num |-> FALSE, inf |-> FALSE, ts |-> FALSE, v |-> <<>>]
  ELSE IF type \in {"int", "float"}
    THEN [num |-> TRUE, inf |-> FALSE, ts |-> FALSE, v |-> entry.data[key]]
  ELSE [num |-> FALSE, inf |-> FALSE, ts |-> FALSE, v |-> StrValue(entry, key)]

\* Python can order two sort keys: numbers with numbers, datetimes with
\* datetimes, strings with strings; otherwise `<` raises TypeError
Comparable(a, b) == a.num = b.num /\ a.ts = b.ts

\* Python's `a < b` on two comparable sort keys
KeyLess(a, b) ==
  IF a.num /\ b.num
    THEN IF a.inf THEN ~b.inf ELSE (~b.inf /\ a.v < b.v)
  ELSE IF a.ts /\ b.ts THEN a.v < b.v
  ELSE StrLess(a.v, b.v)

matches_filter(entry, flt) ==
  \A key \in DOMAIN flt :
    \/ flt[key] = <<>>
    \/ Contains(LowerStr(flt[key]), LowerStr(get_value(entry, key)))

matches_search(entry, term) ==
  \/ term = <<>>
  \/ \E k \in DOMAIN entry.data :
       Contains(LowerStr(term), LowerStr(StrValue(entry, k)))
  \/ Contains(LowerStr(term), LowerStr(entry.raw_line))

(***************************************************************************)
(* JLessModel.apply_filters: filter, search, stable sort.                  *)
(***************************************************************************)
\* list.sort inserts each element after the elements that do not compare
\* after it, so equal keys keep their order; reverse=True keeps that too
RECURSIVE InsertSorted(_, _, _, _, _)
InsertSorted(sorted, e, key, type, reverse) ==
  IF sorted = <<>> THEN <<e>>
  ELSE LET ke == get_sortable_value(e, key, type)
           kh == get_sortable_value(Head(sorted), key, type)
           before == IF reverse THEN KeyLess(kh, ke) ELSE KeyLess(ke, kh)
       IN IF before THEN <<e>> \o sorted
          ELSE <<Head(sorted)>> \o InsertSorted(Tail(sorted), e, key, type, reverse)

RECURSIVE SortAscending(_, _, _)
SortAscending(seq, key, type) ==
  IF seq = <<>> THEN <<>>
  ELSE InsertSorted(SortAscending(SubSeq(seq, 1, Len(seq) - 1), key, type),
                    seq[Len(seq)], key, type, FALSE)

\* a descending sort done as the ascending sort turned around
SortEntries_flip(seq, key, type, reverse) ==
  LET asc == SortAscending(seq, key, type)
  IN IF reverse THEN [i \in 1..Len(asc) |-> asc[Len(asc) + 1 - i]] ELSE asc

RECURSIVE SortEntries(_, _, _, _)
SortEntries(seq, key, type, reverse) ==
  IF seq = <<>> THEN <<>>
  ELSE InsertSorted(SortEntries(SubSeq(seq, 1, Len(seq) - 1), key, type, reverse),
                    seq[Len(seq)], key, type, reverse)

\* the entries that pass the filters and the search, in their order
Passing(ents, flt, term) ==
  SelectSeq(ents, LAMBDA e : matches_filter(e, flt) /\ matches_search(e, term))

\* the sort raises TypeError when it has to order two keys Python cannot
\* compare
SortRaises(ents, flt, term, col, types) ==
  /\ col # ""
  /\ LET passing == Passing(ents, flt, term) IN
       \E i, j \in 1..Len(passing) :
         ~Comparable(get_sortable_value(passing[i], col, types[col]),
                     get_sortable_value(passing[j], col, types[col]))

\* apply_filters keeping the entries that pass the filters or the search
apply_filters_or(ents, flt, term, col, reverse, types) ==
  LET passing == SelectSeq(ents, LAMBDA e : matches_filter(e, flt) \/ matches_search(e, term))
  IN IF col # "" THEN SortEntries(passing, col, types[col], reverse) ELSE passing

apply_filters(ents, flt, term, col, reverse, types) ==
  LET passing == SelectSeq(ents, LAMBDA e : matches_filter(e, flt) /\ matches_search(e, term))
  IN IF col # "" THEN SortEntries(passing, col, types[col], reverse) ELSE passing

(***************************************************************************)
(* JLessState._detect_columns                                              *)
(***************************************************************************)
\* the keys an entry adds to the counter, in the order of its JSON object
CountedKeys(entry) ==
  IF entry.is_valid_json
    THEN SelectSeq(FieldNames, LAMBDA k : k \in DOMAIN entry.data /\ Truthy(entry, k))
    ELSE <<"message">>

InSeq(x, seq) == \E i \in 1..Len(seq) : seq[i] = x

RECURSIVE AppendNew(_, _)
AppendNew(seq, more) ==
  IF more = <<>> THEN seq
  ELSE AppendNew(IF InSeq(Head(more), seq) THEN seq ELSE Append(seq, Head(more)), Tail(more))

\* the keys of the counter in insertion order, "#" first
RECURSIVE CounterKeys(_)
CounterKeys(filtered) ==
  IF filtered = <<>> THEN <<"#">>
  ELSE AppendNew(CounterKeys(SubSeq(filtered, 1, Len(filtered) - 1)),
                 CountedKeys(filtered[Len(filtered)]))

CounterCount(k, filtered) ==
  (IF k = "#" THEN 1 ELSE 0)
  + Cardinality({i \in 1..Len(filtered) : InSeq(k, CountedKeys(filtered[i]))})

calculate_column_priority(column, count) ==
  <<CASE column = "#" -> 4
      [] column \in {"timestamp", "time", "@timestamp"} -> 3
      [] column = "level" -> 2
      [] column = "message" -> 1
      [] OTHER -> 0,
    count>>

PriorityLess(p, q) == p[1] < q[1] \/ (p[1] = q[1] /\ p[2] < q[2])

\* sorted(keys, key=priority, reverse=True): stable, highest priority first
RECURSIVE InsertColumn(_, _, _)
InsertColumn(sorted, k, filtered) ==
  IF sorted = <<>> THEN <<k>>
  ELSE IF PriorityLess(calculate_column_priority(Head(sorted), CounterCount(Head(sorted), filtered)),
                       calculate_column_priority(k, CounterCount(k, filtered)))
    THEN <<k>> \o sorted
    ELSE <<Head(sorted)>> \o InsertColumn(Tail(sorted), k, filtered)

RECURSIVE SortColumns(_, _)
SortColumns(keys, filtered) ==
  IF keys = <<>> THEN <<>>
  ELSE InsertColumn(SortColumns(SubSeq(keys, 1, Len(keys) - 1), filtered),
                    keys[Len(keys)], filtered)

\* the names of the columns after _detect_columns, in display order
detect_columns(filtered) == SortColumns(CounterKeys(filtered), filtered)

SeqToSet(seq) == {seq[i] : i \in 1..Len(seq)}

\* _detect_columns replacing the discovered names by those of the counter
update_discovered_replace(discovered, filtered) == SeqToSet(CounterKeys(filtered))

\* _all_discovered_columns after _detect_columns
update_discovered(discovered, filtered) == discovered \cup SeqToSet(CounterKeys(filtered))

(***************************************************************************)
(* State.  JLessState fields, JLessModel._column_types, the EntriesWindow  *)
(* fields _scroll_row and _old_data_count, and whether the control loop is *)
(* still running (an uncaught exception ends it).                          *)
(***************************************************************************)
VARIABLES
  entries,                 \* JLessState._entries
  filtered_entries,        \* JLessState._filtered_entries
  filters,                 \* JLessState._filters: column name -> substring
  search_term,             \* JLessState.search_term
  sort_column,             \* JLessState.sort_column
  sort_reverse,            \* JLessState.sort_reverse
  columns,                 \* JLessState._columns: the names, in display order
  all_discovered_columns,  \* JLessState._all_discovered_columns
  column_types,            \* JLessModel._column_types
  current_row,             \* JLessState.current_row
  current_column,          \* JLessState.current_column
  scroll_row,              \* EntriesWindow._scroll_row
  old_data_count,          \* EntriesWindow._old_data_count
  current_mode,            \* JLessState.current_mode
  previous_mode,           \* JLessState.previous_mode
  input_mode,              \* JLessState.input_mode
  input_column,            \* JLessState.input_column
  status,                  \* "running", or "crashed" after an uncaught exception
  last,                    \* history: the last operation and what it started from
  view_model,              \* ColumnManagementMode._view_model
  CHANGES,                 \* State._CHANGES, an attribute of the class
  WATCHERS,                \* State._WATCHERS, an attribute of the class
  instances,               \* the State objects: id -> the values of their fields
  calls,                   \* the callbacks the last operation invoked, in order
  follow_mode,             \* JLessState.follow_mode
  timeout,                 \* the timeout of getch set by stdscr.timeout: 1000 or -1 (blocking)
  source,                  \* the lines of the input source that were not read yet
  input_buffer,            \* JLessState.input_buffer
  input_cursor_pos,        \* JLessState.input_cursor_pos
  filters_count,           \* JLessState._filters_count
  help_opened_from,        \* history: the mode that was active when Help became the mode
  ok_available,            \* history: the 'available' list at the last OK of Column Management
  details_mode,            \* DetailsMode: _field_count, _current_field, _scroll_offset
  needs_redraw,            \* JLess._needs_header_redraw, _needs_footer_redraw, EntriesWindow._needs_redraw
  drawn,                   \* history: the watched values each surface showed when last drawn
  ok_columns               \* history: the list the last OK of Column Management committed;
                           \* None after a column move or a reset of the lists

vars == <<entries, filtered_entries, filters, search_term, sort_column, sort_reverse,
          columns, all_discovered_columns, column_types, current_row, current_column,
          scroll_row, old_data_count, current_mode, previous_mode, input_mode,
          input_column, status, last, view_model, CHANGES, WATCHERS, instances, calls,
          follow_mode, timeout, source, input_buffer, input_cursor_pos, filters_count,
          help_opened_from, ok_available, details_mode, needs_redraw, drawn,
          ok_columns>>

\* the redraw flags of the surfaces and what they last drew
redrawvars == <<needs_redraw, drawn>>

\* follow mode, the timeout of the control loop and the input source
followvars == <<follow_mode, timeout, source>>

\* the text of the prompt
promptvars == <<input_buffer, input_cursor_pos>>

\* _filters_count after update_filters and clear_filters
count_filters(flt, term) == Cardinality(DOMAIN flt) + (IF term # <<>> THEN 1 ELSE 0)

\* the class attributes of State, its instances and the callbacks invoked
trackvars == <<CHANGES, WATCHERS, instances, calls>>

\* ColumnManagementViewModel(): the defaults of the dataclass
ColumnManagementViewModel ==
  [focus |-> "available", available_selection |-> 0, selected_selection |-> 0,
   button_selection |-> 0, selected_column |-> NoneVal, available_columns |-> <<>>,
   selected_columns |-> <<>>, all_columns |-> {}]

\* DetailsMode.__init__
DetailsMode == [field_count |-> 0, current_field |-> 0, scroll_offset |-> 0]

\* the surfaces with a redraw flag: JLess.__init__ and EntriesWindow.__init__
\* set the three flags
Surfaces == {"header", "footer", "entries"}

\* ColumnManagementMode.__init__, and no State object looked at on its own
InitOther ==
  /\ view_model = ColumnManagementViewModel
  /\ CHANGES = {}
  /\ WATCHERS = <<>>
  /\ instances = <<>>
  /\ calls = <<>>
  /\ follow_mode = TRUE
  /\ timeout = 1000
  /\ source = <<>>
  /\ input_buffer = <<>>
  /\ input_cursor_pos = 0
  /\ filters_count = 0
  /\ help_opened_from = NoneVal
  /\ ok_available = NoneVal
  /\ details_mode = DetailsMode
  /\ needs_redraw = [s \in Surfaces |-> TRUE]
  /\ drawn = [s \in Surfaces |-> NoneVal]
  /\ ok_columns = NoneVal

Max(a, b) == IF a >= b THEN a ELSE b
Min(a, b) == IF a <= b THEN a ELSE b

\* Python's seq[i] does not raise: a negative index counts from the end
ValidIndex(seq, i) == -Len(seq) <= i /\ i < Len(seq)

\* line number of the selected entry, the one EntriesWindow.draw highlights
\* (entry_idx == current_row); 0 when no entry is at that row
LineAt(filtered, row) ==
  IF 0 <= row /\ row < Len(filtered) THEN filtered[row + 1].line_number ELSE 0

LineNumbers(filtered) == {filtered[i].line_number : i \in 1..Len(filtered)}

\* history record; the fields an operation does not use are 0
HistoryScroll(op, arg, row, len, line, orig, scroll) ==
  [op |-> op, arg |-> arg, row |-> row, len |-> len, line |-> line, orig |-> orig,
   scroll |-> scroll]

History(op, arg, row, len, line, orig) == HistoryScroll(op, arg, row, len, line, orig, 0)

(***************************************************************************)
(* JLessModel.load_entries / _combine_types                                *)
(***************************************************************************)
\* the entries parsed from a batch of non-blank lines, numbered from first
NewEntries(batch, first) == [i \in 1..Len(batch) |-> LogEntry(batch[i], first + i - 1)]

\* _combine_types where a differing type replaces the recorded one
combine_types_last_wins(types, new_types) ==
  [k \in DOMAIN types \cup DOMAIN new_types |->
     IF k \in DOMAIN new_types THEN new_types[k] ELSE types[k]]

combine_types(types, new_types) ==
  [k \in DOMAIN types \cup DOMAIN new_types |->
     IF k \notin DOMAIN types THEN new_types[k]
     ELSE IF k \in DOMAIN new_types /\ types[k] # new_types[k] THEN "str"
     ELSE types[k]]

RECURSIVE CombineAll(_, _)
CombineAll(types, new_entries) ==
  IF new_entries = <<>> THEN types
  ELSE CombineAll(combine_types(types, EntryTypes(Head(new_entries))), Tail(new_entries))

\* line.strip() is empty
IsBlank(line) == \A i \in 1..Len(line.raw) : line.raw[i] \in {" ", "\t", "\n", "\r"}

\* load_entries giving a line its position in the file, blank lines counted
load_entries_count_blank(ents, batch) ==
  ents \o [i \in 1..Len(SelectSeq(batch, LAMBDA l : ~IsBlank(l))) |->
             LET pos == CHOOSE p \in 1..Len(batch) :
                          /\ ~IsBlank(batch[p])
                          /\ Len(SelectSeq(SubSeq(batch, 1, p), LAMBDA l : ~IsBlank(l))) = i
             IN LogEntry(batch[pos], Len(ents) + pos)]

\* the entries after load_entries read the lines of batch: blank lines are
\* skipped, the others are numbered on from len(entries) + 1
load_entries(ents, batch) ==
  ents \o NewEntries(SelectSeq(batch, LAMBDA l : ~IsBlank(l)), Len(ents) + 1)

(***************************************************************************)
(* EntriesWindow.set_data                                                  *)
(***************************************************************************)
\* set_data without the pin to row 0 under a descending sort
set_data_no_pin(row, old_count, n, reverse) ==
  LET moved == IF ~reverse /\ row = old_count - 1 THEN n - 1
               ELSE IF reverse THEN row + (n - old_count)
               ELSE row
  IN IF moved >= n THEN Max(0, n - 1) ELSE moved

\* set_data without the move to the new last row under an ascending sort
set_data_no_follow(row, old_count, n, reverse) ==
  LET moved == IF reverse /\ row = 0 THEN row
               ELSE IF reverse THEN row + (n - old_count)
               ELSE row
  IN IF moved >= n THEN Max(0, n - 1) ELSE moved

\* set_data without the shift by the growth under a descending sort
set_data_no_shift(row, old_count, n, reverse) ==
  LET moved == IF reverse /\ row = 0 THEN row
               ELSE IF ~reverse /\ row = old_count - 1 THEN n - 1
               ELSE row
  IN IF moved >= n THEN Max(0, n - 1) ELSE moved

\* current_row after set_data; n is len(filtered_entries)
set_data(row, old_count, n, reverse) ==
  LET moved == IF reverse /\ row = 0 THEN row
               ELSE IF ~reverse /\ row = old_count - 1 THEN n - 1
               ELSE IF reverse THEN row + (n - old_count)
               ELSE row
  IN IF moved >= n THEN Max(0, n - 1) ELSE moved

set_data_scroll(scroll, n) == Min(scroll, n)

(***************************************************************************)
(* EntriesWindow.get_current_column: the first column drawn.  The terminal *)
(* is wide enough for the column at current_column to fit.                 *)
(***************************************************************************)
ColumnIndex(cols, name) == CHOOSE i \in 1..Len(cols) : cols[i] = name

get_current_column(cols, cur) ==
  IF cols = <<>> THEN ""
  ELSE IF InSeq(cur, cols) THEN cur
  ELSE cols[1]

(***************************************************************************)
(* EntriesWindow.handle_navigation                                         *)
(***************************************************************************)
RowKeys == {"UP", "DOWN", "PPAGE", "NPAGE", "HOME", "END"}
ColumnKeys == {"LEFT", "RIGHT"}
NavKeys == RowKeys \cup ColumnKeys

\* a KeyError from columns.index(current_column)
NavRaises(key, filtered, cols, cur) ==
  filtered # <<>> /\ key \in ColumnKeys /\ ~InSeq(cur, cols)

NavRow(key, row, n) ==
  CASE key = "UP" -> Max(0, row - 1)
    [] key = "DOWN" -> Min(n - 1, row + 1)
    [] key = "PPAGE" -> Max(0, row - VisibleRows)
    [] key = "NPAGE" -> Min(n - 1, row + VisibleRows)
    [] key = "HOME" -> 0
    [] key = "END" -> Max(0, n - 1)
    [] OTHER -> row

NavPageScroll(key, scroll, n) ==
  CASE key = "PPAGE" -> Max(0, scroll - VisibleRows)
    [] key = "NPAGE" -> Min(n - VisibleRows, scroll + VisibleRows)
    [] OTHER -> scroll

\* the scroll adjustment without its scroll-down branch
KeepVisible_no_scroll_down(row, scroll) ==
  IF row < scroll THEN row ELSE scroll

\* keep the current row visible
KeepVisible(row, scroll) ==
  IF row < scroll THEN row
  ELSE IF row >= scroll + VisibleRows THEN row - VisibleRows + 1
  ELSE scroll

NavScroll(key, row, scroll, n) == KeepVisible(NavRow(key, row, n), NavPageScroll(key, scroll, n))

NavColumn(key, cols, cur) ==
  CASE key = "LEFT" -> cols[Max(0, ColumnIndex(cols, cur) - 1 - 1) + 1]
    [] key = "RIGHT" -> cols[Min(Len(cols) - 1, ColumnIndex(cols, cur) - 1 + 1) + 1]
    [] OTHER -> cur

(***************************************************************************)
(* EntriesWindow.goto_line                                                 *)
(***************************************************************************)
HasLine(filtered, line_num) ==
  \E i \in 1..Len(filtered) : filtered[i].line_number = line_num

\* index (from 0) of the first entry with that line number
find_first_index(filtered, line_num) ==
  (CHOOSE i \in 1..Len(filtered) :
     /\ filtered[i].line_number = line_num
     /\ \A j \in 1..(i - 1) : filtered[j].line_number # line_num) - 1

\* max(enumerate(...), key=line_number): the first entry with the largest
\* line number
MaxLineIndex(filtered) ==
  (CHOOSE i \in 1..Len(filtered) :
     /\ \A j \in 1..Len(filtered) : filtered[j].line_number <= filtered[i].line_number
     /\ \A j \in 1..(i - 1) : filtered[j].line_number < filtered[i].line_number) - 1

\* max() of an empty sequence raises ValueError
GotoRaises(line_num, filtered) ==
  line_num >= 1 /\ line_num > Len(filtered) /\ filtered = <<>>

\* goto_line returns early, selecting nothing
GotoReturns(line_num, filtered) ==
  \/ line_num < 1
  \/ line_num <= Len(filtered) /\ ~HasLine(filtered, line_num)

\* goto_line selecting the last row, not the largest line number, for a
\* target beyond the list
goto_line_last_row(line_num, filtered) ==
  IF line_num <= Len(filtered) THEN find_first_index(filtered, line_num)
  ELSE Len(filtered) - 1

\* the index goto_line selects when it neither returns early nor raises
goto_line(line_num, filtered) ==
  IF line_num <= Len(filtered) THEN find_first_index(filtered, line_num)
  ELSE MaxLineIndex(filtered)

GotoRow(line_num, filtered, row) ==
  IF GotoReturns(line_num, filtered) THEN row ELSE goto_line(line_num, filtered)

GotoScroll(line_num, filtered, scroll) ==
  IF GotoReturns(line_num, filtered) THEN scroll
  ELSE Max(0, goto_line(line_num, filtered) - (VisibleRows \div 2))

(***************************************************************************)
(* Prompts.  In this specification a prompt is one step: the key that      *)
(* opens it ('f' or 'g'), the text typed, and Enter.  The handlers of     *)
(* these keys run one after the other; input_mode and input_column are     *)
(* None before and after.  FilterInputs and GotoTargets are what the user  *)
(* types: a filter on the level column, a line number.                     *)
(***************************************************************************)
FilterInputs == {[column |-> "level", text |-> <<"E">>]}
GotoTargets == 0..(MaxEntries + 1)

(***************************************************************************)
(* Initial state: JLessState(), JLessModel.__init__, EntriesWindow.__init__ *)
(***************************************************************************)
Init ==
  /\ entries = <<>>
  /\ filtered_entries = <<>>
  /\ filters = <<>>
  /\ search_term = <<>>
  /\ sort_column = "#"
  /\ sort_reverse = TRUE
  /\ columns = <<>>
  /\ all_discovered_columns = {}
  /\ column_types = ("#" :> "int")
  /\ current_row = 0
  /\ current_column = "#"
  /\ scroll_row = 0
  /\ old_data_count = 0
  /\ current_mode = "browse"
  /\ previous_mode = "browse"
  /\ input_mode = NoneVal
  /\ input_column = NoneVal
  /\ status = "running"
  /\ last = History("init", 0, 0, 0, 0, 0)
  /\ InitOther

(***************************************************************************)
(* JLessModel.apply_filters followed by JLessState.set_filtered_entries,   *)
(* on the primed entries, filters, search term and sort settings.          *)
(***************************************************************************)
Refilter ==
  /\ filtered_entries' = apply_filters(entries', filters', search_term', sort_column',
                                       sort_reverse', column_types')
  /\ columns' = detect_columns(filtered_entries')
  /\ all_discovered_columns' = update_discovered(all_discovered_columns, filtered_entries')
  /\ old_data_count' = Len(filtered_entries')

\* the part of the state space that is explored
RowBound == current_row' >= -MaxNegRow

\* DetailsMode.draw indexes filtered_entries[current_row]: IndexError when
\* current_row is negative beyond the start of the list
DetailsDrawRaises(filtered, row) ==
  filtered # <<>> /\ row < Len(filtered) /\ ~ValidIndex(filtered, row)

\* JLessModel.load_entries on a read of the input source that returns at
\* least one line
LoadEntries ==
  \E batch \in Batches(1, Min(MaxBatch, MaxEntries - Len(entries))) :
    /\ entries' = entries \o NewEntries(batch, Len(entries) + 1)
    /\ column_types' = CombineAll(column_types, NewEntries(batch, Len(entries) + 1))

(***************************************************************************)
(* JLess.run, key == -1: update_entries found new lines, then set_data.    *)
(***************************************************************************)
Tick ==
  /\ status = "running"
  /\ Len(entries) < MaxEntries
  /\ LoadEntries
  /\ UNCHANGED <<filters, search_term, sort_column, sort_reverse>>
  /\ Refilter
  /\ current_row' = set_data(current_row, old_data_count, Len(filtered_entries'), sort_reverse)
  /\ scroll_row' = set_data_scroll(scroll_row, Len(filtered_entries'))
  /\ RowBound
  /\ status' = IF current_mode = "details" /\ DetailsDrawRaises(filtered_entries', current_row')
                 THEN "crashed" ELSE "running"
  /\ last' = History("tick", 0, current_row, Len(filtered_entries),
                     LineAt(filtered_entries, current_row), 0)
  /\ UNCHANGED <<current_column, current_mode, previous_mode, input_mode, input_column>>
  /\ UNCHANGED <<view_model, trackvars, followvars, promptvars, help_opened_from, ok_available,
                 details_mode, redrawvars, ok_columns>>
  /\ UNCHANGED filters_count

(***************************************************************************)
(* BrowseMode.handle_input, no prompt open                                 *)
(***************************************************************************)
BrowseKey ==
  /\ status = "running"
  /\ current_mode = "browse"
  /\ input_mode = NoneVal

\* 'R': JLess._reset (JLessModel.reset, EntriesWindow.reset), then
\* JLess._apply_filters
ResetKey ==
  /\ BrowseKey
  /\ filters' = <<>>
  /\ search_term' = <<>>
  /\ sort_column' = "#"
  /\ sort_reverse' = TRUE
  /\ current_column' = "#"
  /\ UNCHANGED <<entries, column_types>>
  /\ Refilter
  /\ current_row' = set_data(0, old_data_count, Len(filtered_entries'), TRUE)
  /\ scroll_row' = set_data_scroll(0, Len(filtered_entries'))
  /\ RowBound
  /\ last' = History("reset", 0, 0, 0, 0, 0)
  /\ UNCHANGED <<current_mode, previous_mode, input_mode, input_column, status>>
  /\ UNCHANGED <<view_model, trackvars, followvars, promptvars, help_opened_from, ok_available,
                 details_mode, redrawvars, ok_columns>>
  /\ filters_count' = count_filters(<<>>, search_term)

\* 'c': JLessState.clear_filters, then JLess._apply_filters.  The assignment
\* self.search_term = "" sets a field of BrowseMode, not of the state.
ClearFilters ==
  /\ BrowseKey
  /\ filters' = <<>>
  /\ UNCHANGED <<entries, column_types, search_term, sort_column, sort_reverse>>
  /\ Refilter
  /\ current_row' = set_data(current_row, old_data_count, Len(filtered_entries'), sort_reverse)
  /\ scroll_row' = set_data_scroll(scroll_row, Len(filtered_entries'))
  /\ RowBound
  /\ last' = History("clear", 0, 0, 0, LineAt(filtered_entries, current_row),
                     IF last.op = "filter" /\ last.line # 0
                        /\ last.line \notin LineNumbers(filtered_entries)
                       THEN last.line ELSE 0)
  /\ UNCHANGED <<current_column, current_mode, previous_mode, input_mode, input_column, status>>
  /\ UNCHANGED <<view_model, trackvars, followvars, promptvars, help_opened_from, ok_available,
                 details_mode, redrawvars, ok_columns>>
  /\ filters_count' = count_filters(<<>>, search_term)

\* 's': sort by the current column, toggling the direction when it already
\* is the sort column
SortKey ==
  /\ BrowseKey
  /\ get_current_column(columns, current_column) # ""
  /\ LET col == get_current_column(columns, current_column) IN
       IF sort_column = col
         THEN sort_reverse' = ~sort_reverse /\ sort_column' = sort_column
         ELSE sort_column' = col /\ sort_reverse' = FALSE
  /\ UNCHANGED <<entries, column_types, filters, search_term>>
  /\ Refilter
  /\ current_row' = set_data(current_row, old_data_count, Len(filtered_entries'), sort_reverse')
  /\ scroll_row' = set_data_scroll(scroll_row, Len(filtered_entries'))
  /\ RowBound
  /\ last' = History("sort", 0, 0, 0, 0, 0)
  /\ UNCHANGED <<current_column, current_mode, previous_mode, input_mode, input_column, status>>
  /\ UNCHANGED <<view_model, trackvars, followvars, promptvars, help_opened_from, ok_available,
                 details_mode, redrawvars, ok_columns>>
  /\ UNCHANGED filters_count

\* 'S': sort by the current column, descending
SortReverseKey ==
  /\ BrowseKey
  /\ get_current_column(columns, current_column) # ""
  /\ sort_column' = get_current_column(columns, current_column)
  /\ sort_reverse' = TRUE
  /\ UNCHANGED <<entries, column_types, filters, search_term>>
  /\ Refilter
  /\ current_row' = set_data(current_row, old_data_count, Len(filtered_entries'), TRUE)
  /\ scroll_row' = set_data_scroll(scroll_row, Len(filtered_entries'))
  /\ RowBound
  /\ last' = History("sort", 0, 0, 0, 0, 0)
  /\ UNCHANGED <<current_column, current_mode, previous_mode, input_mode, input_column, status>>
  /\ UNCHANGED <<view_model, trackvars, followvars, promptvars, help_opened_from, ok_available,
                 details_mode, redrawvars, ok_columns>>
  /\ UNCHANGED filters_count

\* any other key: EntriesWindow.handle_navigation (it returns at once when
\* there are no filtered entries)
BrowseNavigate ==
  /\ BrowseKey
  /\ filtered_entries # <<>>
  /\ \E key \in NavKeys :
       IF NavRaises(key, filtered_entries, columns, current_column)
         THEN /\ status' = "crashed"
              /\ last' = History(IF key \in RowKeys THEN "nav" ELSE "col", 0, 0, 0, 0, 0)
              /\ UNCHANGED <<current_row, scroll_row, current_column>>
         ELSE /\ current_row' = NavRow(key, current_row, Len(filtered_entries))
              /\ scroll_row' = NavScroll(key, current_row, scroll_row, Len(filtered_entries))
              /\ current_column' = NavColumn(key, columns, current_column)
              /\ last' = History(IF key \in RowKeys THEN "nav" ELSE "col", 0, 0, 0, 0, 0)
              /\ UNCHANGED status
  /\ UNCHANGED <<entries, filtered_entries, filters, search_term, sort_column, sort_reverse,
                 columns, all_discovered_columns, column_types, old_data_count,
                 current_mode, previous_mode, input_mode, input_column>>
  /\ UNCHANGED <<view_model, trackvars, followvars, promptvars, help_opened_from, ok_available,
                 details_mode, redrawvars, ok_columns>>
  /\ UNCHANGED filters_count

(***************************************************************************)
(* BrowseMode.handle_input opening a prompt, then                          *)
(* BrowseMode._handle_input_submode on Enter                               *)
(***************************************************************************)
\* 'f', text, Enter: input_column is the current column when 'f' is pressed;
\* JLessState.update_filters({input_column: input_buffer}), then _apply_filters
FilterPrompt ==
  /\ BrowseKey
  /\ \E in \in FilterInputs :
       /\ in.column = get_current_column(columns, current_column)
       /\ filters' = (in.column :> in.text) @@ filters
  /\ UNCHANGED <<entries, column_types, search_term, sort_column, sort_reverse>>
  /\ Refilter
  /\ current_row' = set_data(current_row, old_data_count, Len(filtered_entries'), sort_reverse)
  /\ scroll_row' = set_data_scroll(scroll_row, Len(filtered_entries'))
  /\ RowBound
  /\ last' = History("filter", 0, 0, 0, LineAt(filtered_entries, current_row), 0)
  /\ UNCHANGED <<current_column, current_mode, previous_mode, input_mode, input_column, status>>
  /\ UNCHANGED <<view_model, trackvars, followvars, promptvars, help_opened_from, ok_available,
                 details_mode, redrawvars, ok_columns>>
  /\ filters_count' = count_filters(filters', search_term)

\* 'g', digits, Enter: the buffer parses as the integer line_num; goto_line,
\* then _apply_filters
GotoPrompt ==
  /\ BrowseKey
  /\ UNCHANGED <<entries, column_types, filters, search_term, sort_column, sort_reverse>>
  /\ \E line_num \in GotoTargets :
       IF GotoRaises(line_num, filtered_entries)
         THEN /\ status' = "crashed"
              /\ last' = History("goto", line_num, 0, 0, 0, 0)
              /\ UNCHANGED <<filtered_entries, columns, all_discovered_columns, old_data_count,
                             current_row, scroll_row>>
         ELSE /\ Refilter
              /\ current_row' = set_data(GotoRow(line_num, filtered_entries, current_row),
                                         old_data_count, Len(filtered_entries'), sort_reverse)
              /\ scroll_row' = set_data_scroll(GotoScroll(line_num, filtered_entries, scroll_row),
                                               Len(filtered_entries'))
              /\ RowBound
              /\ last' = IF line_num < 1
                           THEN HistoryScroll("goto", line_num, current_row, 0, 0, 0, scroll_row)
                           ELSE History("goto", line_num, 0, 0, 0, 0)
              /\ UNCHANGED status
  /\ UNCHANGED <<current_column, current_mode, previous_mode, input_mode, input_column>>
  /\ UNCHANGED <<view_model, trackvars, followvars, promptvars, help_opened_from, ok_available,
                 details_mode, redrawvars, ok_columns>>
  /\ UNCHANGED filters_count

(***************************************************************************)
(* JLess._switch_mode, 'd', with DetailsMode.enter_mode                    *)
(***************************************************************************)
\* enter_mode indexes filtered_entries[current_row]
EnterDetailsRaises(filtered, row) == ~ValidIndex(filtered, row)

\* filtered_entries[row] of Python: a negative row counts from the end
EntryAt(filtered, row) == filtered[(IF row < 0 THEN row + Len(filtered) ELSE row) + 1]

\* len(entry.data.keys())
NumKeys(entry) == Cardinality(DOMAIN entry.data)

\* len(_get_entry_fields(entry)): the keys of a JSON object, or the one
\* field "message" of a line that is not a JSON object
NumFields(entry) == IF entry.is_valid_json THEN Cardinality(DOMAIN entry.data) ELSE 1

\* DetailsMode._reset_view
reset_view(dm) == [dm EXCEPT !.current_field = 0, !.scroll_offset = 0]

\* DetailsMode.enter_mode: _reset_view, then the field count of the selected
\* entry; the IndexError of an empty list leaves _field_count as it was
enter_details(dm, filtered, row) ==
  [reset_view(dm) EXCEPT !.field_count =
     IF EnterDetailsRaises(filtered, row) THEN dm.field_count
     ELSE NumKeys(EntryAt(filtered, row))]

\* available_height of DetailsMode.draw: the rows of the window left for
\* the fields
AvailableHeight == 1

\* DetailsMode.draw with the field index left as it is
details_draw_no_clamp(dm, filtered, row) ==
  IF filtered = <<>> \/ row >= Len(filtered) \/ ~ValidIndex(filtered, row) THEN dm
  ELSE LET n == NumFields(EntryAt(filtered, row))
           field == dm.current_field
           scroll == IF field < dm.scroll_offset THEN field
                     ELSE IF field >= dm.scroll_offset + AvailableHeight
                       THEN field - AvailableHeight + 1
                     ELSE dm.scroll_offset
       IN [dm EXCEPT !.current_field = field,
                     !.scroll_offset = Max(0, Min(scroll, Max(0, n - AvailableHeight)))]

\* DetailsMode.draw, which every iteration of run ends with in Details: it
\* returns at once without an entry at current_row, and else brings
\* _current_field below the number of fields shown and _scroll_offset to
\* where that field is visible
details_draw(dm, filtered, row) ==
  IF filtered = <<>> \/ row >= Len(filtered) \/ ~ValidIndex(filtered, row) THEN dm
  ELSE LET n == NumFields(EntryAt(filtered, row))
           field == IF dm.current_field >= n THEN Max(0, n - 1) ELSE dm.current_field
           scroll == IF field < dm.scroll_offset THEN field
                     ELSE IF field >= dm.scroll_offset + AvailableHeight
                       THEN field - AvailableHeight + 1
                     ELSE dm.scroll_offset
       IN [dm EXCEPT !.current_field = field,
                     !.scroll_offset = Max(0, Min(scroll, Max(0, n - AvailableHeight)))]

SwitchDetails ==
  /\ status = "running"
  /\ current_mode \in {"browse", "details"}
  /\ current_mode' = IF current_mode = "browse" THEN "details" ELSE "browse"
  /\ previous_mode' = current_mode
  /\ status' = IF current_mode' = "details" /\ EnterDetailsRaises(filtered_entries, current_row)
                 THEN "crashed" ELSE "running"
  /\ last' = History("mode", 0, 0, 0, 0, 0)
  /\ details_mode' = IF current_mode' = "details"
                       THEN enter_details(details_mode, filtered_entries, current_row)
                       ELSE details_mode
  /\ UNCHANGED <<entries, filtered_entries, filters, search_term, sort_column, sort_reverse,
                 columns, all_discovered_columns, column_types, current_row, current_column,
                 scroll_row, old_data_count, input_mode, input_column>>
  /\ UNCHANGED <<view_model, trackvars, followvars, promptvars, help_opened_from, ok_available,
                 redrawvars, ok_columns>>
  /\ UNCHANGED filters_count

(***************************************************************************)
(* DetailsMode.handle_input: Left and Right step to the previous and next  *)
(* entry through EntriesWindow.handle_navigation(KEY_UP / KEY_DOWN).        *)
(***************************************************************************)
DetailsNavigate ==
  /\ status = "running"
  /\ current_mode = "details"
  /\ filtered_entries # <<>>
  /\ \E key \in {"UP", "DOWN"} :
       /\ current_row' = NavRow(key, current_row, Len(filtered_entries))
       /\ scroll_row' = NavScroll(key, current_row, scroll_row, Len(filtered_entries))
       /\ last' = History("nav", 0, 0, 0, 0, 0)
  /\ status' = IF DetailsDrawRaises(filtered_entries, current_row') THEN "crashed" ELSE "running"
  /\ details_mode' = details_draw(reset_view(details_mode), filtered_entries, current_row')
  /\ UNCHANGED <<entries, filtered_entries, filters, search_term, sort_column, sort_reverse,
                 columns, all_discovered_columns, column_types, current_column, old_data_count,
                 current_mode, previous_mode, input_mode, input_column>>
  /\ UNCHANGED <<view_model, trackvars, followvars, promptvars, help_opened_from, ok_available,
                 redrawvars, ok_columns>>
  /\ UNCHANGED filters_count

Next ==
  \/ Tick
  \/ ResetKey
  \/ ClearFilters
  \/ SortKey
  \/ SortReverseKey
  \/ BrowseNavigate
  \/ FilterPrompt
  \/ GotoPrompt

Spec == Init /\ [][Next]_vars

\* the control loop with the Details view: 'd', and the keys of both views
\* that move the selection or change what new lines do to it
NextDetails ==
  \/ Tick
  \/ SortKey
  \/ FilterPrompt
  \/ BrowseNavigate
  \/ SwitchDetails
  \/ DetailsNavigate

SpecDetails == Init /\ [][NextDetails]_vars

(***************************************************************************)
(* The filter/sort pipeline on its own: JLessModel.apply_filters after a   *)
(* change of the filters, the search term or the sort settings, on entries *)
(* that were loaded before.  An uncaught exception of the sort leaves the  *)
(* filtered entries as they were.                                          *)
(***************************************************************************)
ModelLines == {ErrLine, InfLine, TsLine, BadTsLine}

\* the entries after loading up to MaxModelEntries lines
ModelEntries ==
  {NewEntries(batch, 1) :
     batch \in UNION {[1..n -> ModelLines] : n \in 0..MaxModelEntries}}

ModelFilterInputs ==
  {[column |-> "level", text |-> <<"n">>], [column |-> "level", text |-> <<>>]}

ModelSearchTerms == {<<>>, <<"i", "n", "f">>}

\* the state after the entries were loaded and filtered with the defaults
InitModel ==
  /\ entries \in ModelEntries
  /\ column_types = CombineAll(("#" :> "int"), entries)
  /\ filters = <<>>
  /\ search_term = <<>>
  /\ sort_column = "#"
  /\ sort_reverse = TRUE
  /\ filtered_entries = apply_filters(entries, filters, search_term, sort_column,
                                      sort_reverse, column_types)
  /\ columns = detect_columns(filtered_entries)
  /\ all_discovered_columns = update_discovered({}, filtered_entries)
  /\ current_row = 0
  /\ current_column = "#"
  /\ scroll_row = 0
  /\ old_data_count = 0
  /\ current_mode = "browse"
  /\ previous_mode = "browse"
  /\ input_mode = NoneVal
  /\ input_column = NoneVal
  /\ status = "running"
  /\ last = History("init", 0, 0, 0, 0, 0)
  /\ InitOther

\* JLessModel.apply_filters on the primed settings
ModelApply ==
  /\ IF SortRaises(entries, filters', search_term', sort_column', column_types)
       THEN /\ status' = "crashed"
            /\ UNCHANGED <<filtered_entries, columns, all_discovered_columns>>
       ELSE /\ status' = "running"
            /\ filtered_entries' = apply_filters(entries, filters', search_term', sort_column',
                                                 sort_reverse', column_types)
            /\ columns' = detect_columns(filtered_entries')
            /\ all_discovered_columns' =
                 update_discovered(all_discovered_columns, filtered_entries')
  /\ last' = History("apply", 0, 0, 0, 0, 0)
  /\ UNCHANGED <<entries, column_types, current_row, current_column, scroll_row,
                 old_data_count, current_mode, previous_mode, input_mode, input_column>>
  /\ UNCHANGED <<view_model, trackvars, followvars, promptvars, help_opened_from, ok_available,
                 details_mode, redrawvars, ok_columns>>

\* JLessState.update_filters, then apply_filters
ModelUpdateFilters ==
  /\ status = "running"
  /\ \E in \in ModelFilterInputs : filters' = (in.column :> in.text) @@ filters
  /\ UNCHANGED <<search_term, sort_column, sort_reverse>>
  /\ ModelApply
  /\ filters_count' = count_filters(filters', search_term)

\* JLessState.clear_filters, then apply_filters
ModelClearFilters ==
  /\ status = "running"
  /\ filters' = <<>>
  /\ UNCHANGED <<search_term, sort_column, sort_reverse>>
  /\ ModelApply
  /\ filters_count' = count_filters(<<>>, search_term)

\* search_term is set, then apply_filters
ModelSetSearch ==
  /\ status = "running"
  /\ \E term \in ModelSearchTerms : search_term' = term
  /\ UNCHANGED <<filters, sort_column, sort_reverse>>
  /\ ModelApply
  /\ UNCHANGED filters_count

\* sort_column and sort_reverse are set, then apply_filters.  The column is
\* empty or one that _column_types knows.
ModelSetSort ==
  /\ status = "running"
  /\ \E col \in {""} \cup DOMAIN column_types : sort_column' = col
  /\ \E reverse \in BOOLEAN : sort_reverse' = reverse
  /\ UNCHANGED <<filters, search_term>>
  /\ ModelApply
  /\ UNCHANGED filters_count

NextModel ==
  \/ ModelUpdateFilters
  \/ ModelClearFilters
  \/ ModelSetSearch
  \/ ModelSetSort

SpecModel == InitModel /\ [][NextModel]_vars

(***************************************************************************)
(* Loading on its own: JLessModel.load_entries on reads of the input       *)
(* source that return lines with values of different types and blank       *)
(* lines.                                                                  *)
(***************************************************************************)
LoadLines == {ErrLine, IntLine, StrLine, BlankLine}

LoadBatches == UNION {[1..n -> LoadLines] : n \in 1..MaxBatch}

\* a blank line of the batch is followed by a line that is not blank
SkipsBlank(batch) ==
  \E i, j \in 1..Len(batch) : i < j /\ IsBlank(batch[i]) /\ ~IsBlank(batch[j])

LoadBatch ==
  /\ status = "running"
  /\ \E batch \in LoadBatches :
       /\ Len(load_entries(entries, batch)) <= MaxEntries
       /\ entries' = load_entries(entries, batch)
       /\ column_types' =
            CombineAll(column_types, SubSeq(entries', Len(entries) + 1, Len(entries')))
       /\ last' = History("load", IF SkipsBlank(batch) THEN 1 ELSE 0, 0, Len(entries), 0, 0)
  /\ UNCHANGED <<filtered_entries, filters, search_term, sort_column, sort_reverse, columns,
                 all_discovered_columns, current_row, current_column, scroll_row,
                 old_data_count, current_mode, previous_mode, input_mode, input_column,
                 status>>
  /\ UNCHANGED <<view_model, trackvars, followvars, promptvars, help_opened_from, ok_available,
                 details_mode, redrawvars, ok_columns>>
  /\ UNCHANGED filters_count

NextLoad == LoadBatch

SpecLoad == Init /\ [][NextLoad]_vars

(***************************************************************************)
(* Column Management: JLess._switch_mode on 'm', ColumnManagementMode and  *)
(* its view-model, and EntriesWindow.move_column on '<' and '>', next to   *)
(* loading and filtering.                                                  *)
(***************************************************************************)
MaxColumnEntries == 1

ColumnLines == {ErrLine, InfLine}

\* Python's order of the column names
NameOrder == <<"#", "level", "message", "n", "timestamp">>

\* sorted(names) of a set of names
SortedNames(names) == SelectSeq(NameOrder, LAMBDA c : c \in names)

\* list.sort of a list of names
RECURSIVE SortNameList(_, _)
SortNameList(items, order) ==
  IF order = <<>> THEN <<>>
  ELSE SelectSeq(items, LAMBDA c : c = Head(order)) \o SortNameList(items, Tail(order))

\* list.remove: the first occurrence is removed
RECURSIVE RemoveFirst(_, _)
RemoveFirst(items, x) ==
  IF items = <<>> THEN <<>>
  ELSE IF Head(items) = x THEN Tail(items)
  ELSE <<Head(items)>> \o RemoveFirst(Tail(items), x)

\* list.index, from 0
ListIndex(items, x) ==
  (CHOOSE i \in 1..Len(items) : items[i] = x /\ \A j \in 1..(i - 1) : items[j] # x) - 1

\* items.insert(to_idx, items.pop(from_idx)), indices from 0
MoveItem(items, from_idx, to_idx) ==
  LET x == items[from_idx + 1]
      rest == SubSeq(items, 1, from_idx) \o SubSeq(items, from_idx + 2, Len(items))
      at == Min(to_idx, Len(rest))
  IN SubSeq(rest, 1, at) \o <<x>> \o SubSeq(rest, at + 1, Len(rest))

\* JLessState.move_column
move_column(cols, from_idx, to_idx) == MoveItem(cols, from_idx, to_idx)

\* JLessState.set_columns_from_names: the keys of the new IndexedDict
set_columns_from_names(column_names) == AppendNew(<<>>, column_names)

\* get_default_sorted_columns returning the names that have a priority
get_default_sorted_columns_priority(discovered) == <<"#", "timestamp", "level", "message">>

\* sorted(discovered, key=priority with count 1, reverse=True); names of
\* equal priority stay in the iteration order of the set
RECURSIVE DefaultSort(_)
DefaultSort(names) ==
  IF names = {} THEN <<>>
  ELSE LET top == CHOOSE c \in names : \A o \in names :
                    ~PriorityLess(calculate_column_priority(c, 1),
                                  calculate_column_priority(o, 1))
       IN <<top>> \o DefaultSort(names \ {top})

get_default_sorted_columns(discovered) == DefaultSort(discovered)

\* ColumnManagementViewModel.initialize_from_columns
initialize_from_columns(vm, cols) ==
  [focus |-> "available", available_selection |-> 0, selected_selection |-> 0,
   button_selection |-> 0, selected_column |-> NoneVal,
   available_columns |-> SortedNames((vm.all_columns \cup SeqToSet(cols)) \ SeqToSet(cols)),
   selected_columns |-> cols,
   all_columns |-> vm.all_columns \cup SeqToSet(cols)]

\* ColumnManagementMode.enter_mode
enter_mode(vm, discovered, cols) ==
  initialize_from_columns([vm EXCEPT !.all_columns = discovered], cols)

reset_to_default(vm, sorted_columns) ==
  [vm EXCEPT !.selected_columns = sorted_columns, !.available_columns = <<>>]

switch_focus(vm) ==
  [vm EXCEPT !.focus = CASE vm.focus = "available" -> "selected"
                         [] vm.focus = "selected" -> "buttons"
                         [] OTHER -> "available"]

move_selected_column_to_available(vm) ==
  LET column == vm.selected_column
      selected == RemoveFirst(vm.selected_columns, column)
      available == SortNameList(Append(vm.available_columns, column), NameOrder)
  IN IF column = NoneVal \/ ~InSeq(column, vm.selected_columns) THEN vm
     ELSE [vm EXCEPT !.selected_columns = selected,
                     !.available_columns = available,
                     !.focus = "available",
                     !.available_selection = ListIndex(available, column),
                     !.selected_selection =
                        IF @ >= Len(selected) /\ selected # <<>> THEN Len(selected) - 1 ELSE @]

move_selected_column_to_selected(vm) ==
  LET column == vm.selected_column
      available == RemoveFirst(vm.available_columns, column)
      selected == Append(vm.selected_columns, column)
  IN IF column = NoneVal \/ ~InSeq(column, vm.available_columns) THEN vm
     ELSE [vm EXCEPT !.available_columns = available,
                     !.selected_columns = selected,
                     !.focus = "selected",
                     !.selected_selection = Len(selected) - 1,
                     !.available_selection =
                        IF @ >= Len(available) /\ available # <<>> THEN Len(available) - 1 ELSE @]

move_focus_left(vm) ==
  IF vm.selected_column # NoneVal THEN move_selected_column_to_available(vm)
  ELSE IF vm.focus = "selected" THEN [vm EXCEPT !.focus = "available"]
  ELSE IF vm.focus = "buttons" THEN [vm EXCEPT !.focus = "selected"]
  ELSE vm

move_focus_right(vm) ==
  IF vm.selected_column # NoneVal THEN move_selected_column_to_selected(vm)
  ELSE IF vm.focus = "available" THEN [vm EXCEPT !.focus = "selected"]
  ELSE IF vm.focus = "selected" THEN [vm EXCEPT !.focus = "buttons"]
  ELSE vm

\* select_column_from_* that never deselects
select_column_from_keep(vm, items, idx) ==
  IF items = <<>> \/ ~(0 <= idx /\ idx < Len(items)) THEN vm
  ELSE [vm EXCEPT !.selected_column = items[idx + 1]]

\* select_column_from_available and select_column_from_selected
select_column_from(vm, items, idx) ==
  IF items = <<>> \/ ~(0 <= idx /\ idx < Len(items)) THEN vm
  ELSE IF vm.selected_column = items[idx + 1] THEN [vm EXCEPT !.selected_column = NoneVal]
  ELSE [vm EXCEPT !.selected_column = items[idx + 1]]

get_button_action(vm) == <<"ok", "cancel", "reset">>[vm.button_selection + 1]

\* the view-model after handle_enter when the focus is on a pane
handle_enter(vm) ==
  CASE vm.focus = "available" ->
         select_column_from(vm, vm.available_columns, vm.available_selection)
    [] vm.focus = "selected" ->
         select_column_from(vm, vm.selected_columns, vm.selected_selection)
    [] OTHER -> vm

move_selected_column(vm, delta) ==
  LET column == vm.selected_column IN
  IF InSeq(column, vm.available_columns)
    THEN LET items == vm.available_columns
             current_idx == ListIndex(items, column)
             new_idx == Max(0, Min(Len(items) - 1, current_idx + delta))
         IN IF new_idx = current_idx THEN vm
            ELSE [vm EXCEPT !.available_columns = MoveItem(items, current_idx, new_idx),
                            !.available_selection = new_idx]
  ELSE IF InSeq(column, vm.selected_columns)
    THEN LET items == vm.selected_columns
             current_idx == ListIndex(items, column)
             new_idx == Max(0, Min(Len(items) - 1, current_idx + delta))
         IN IF new_idx = current_idx THEN vm
            ELSE [vm EXCEPT !.selected_columns = MoveItem(items, current_idx, new_idx),
                            !.selected_selection = new_idx]
  ELSE vm

move_selection(vm, delta) ==
  IF vm.selected_column # NoneVal THEN move_selected_column(vm, delta)
  ELSE IF vm.focus = "available"
    THEN IF vm.available_columns = <<>> THEN vm
         ELSE [vm EXCEPT !.available_selection =
                           Max(0, Min(Len(vm.available_columns) - 1, @ + delta))]
  ELSE IF vm.focus = "selected"
    THEN IF vm.selected_columns = <<>> THEN vm
         ELSE [vm EXCEPT !.selected_selection =
                           Max(0, Min(Len(vm.selected_columns) - 1, @ + delta))]
  ELSE [vm EXCEPT !.button_selection = Max(0, Min(2, @ + delta))]

\* history: help_opened_from is the mode that was active when the mode became
\* Help, and None while the mode is not Help
HelpOpened ==
  help_opened_from' = IF current_mode' # "help" THEN NoneVal
                      ELSE IF current_mode = "help" THEN help_opened_from
                      ELSE current_mode

\* what the actions of this part leave alone
ColumnsFrame ==
  UNCHANGED <<input_mode, input_column, status, trackvars, followvars, promptvars,
              filters_count>>

\* JLess.run, key == -1, in either mode: a read of the input source returns
\* one line
ColumnsTick ==
  /\ status = "running"
  /\ Len(entries) < MaxColumnEntries
  /\ \E line \in ColumnLines :
       /\ entries' = load_entries(entries, <<line>>)
       /\ column_types' = CombineAll(column_types, NewEntries(<<line>>, Len(entries) + 1))
  /\ UNCHANGED <<filters, search_term, sort_column, sort_reverse>>
  /\ Refilter
  /\ current_row' = set_data(current_row, old_data_count, Len(filtered_entries'), sort_reverse)
  /\ scroll_row' = set_data_scroll(scroll_row, Len(filtered_entries'))
  /\ last' = History("tick", 0, 0, 0, 0, 0)
  /\ UNCHANGED <<current_column, current_mode, previous_mode, view_model>>
  /\ UNCHANGED <<help_opened_from, ok_available, details_mode, redrawvars, ok_columns>>
  /\ ColumnsFrame

\* '<' and '>' in Browse: EntriesWindow.move_column
MoveColumnKey ==
  /\ BrowseKey
  /\ columns # <<>>
  /\ \E to_the_right \in BOOLEAN :
       LET current_idx == ColumnIndex(columns, get_current_column(columns, current_column)) - 1
           new_idx == current_idx + (IF to_the_right THEN 1 ELSE -1)
       IN IF 0 <= new_idx /\ new_idx < Len(columns)
            THEN /\ columns' = move_column(columns, current_idx, new_idx)
                 /\ current_column' = columns'[new_idx + 1]
                 /\ last' = History("move_column", 1, 0, 0, 0, 0)
                 /\ ok_columns' = NoneVal
            ELSE /\ UNCHANGED <<columns, current_column, ok_columns>>
                 /\ last' = History("move_column", 0, 0, 0, 0, 0)
  /\ UNCHANGED <<entries, filtered_entries, filters, search_term, sort_column, sort_reverse,
                 all_discovered_columns, column_types, current_row, scroll_row,
                 old_data_count, current_mode, previous_mode, view_model>>
  /\ UNCHANGED <<help_opened_from, ok_available, details_mode, redrawvars>>
  /\ ColumnsFrame

\* 'm': JLess._switch_mode, with ColumnManagementMode.enter_mode
SwitchColumns ==
  /\ status = "running"
  /\ input_mode = NoneVal
  /\ current_mode \in {"browse", "column_management"}
  /\ current_mode' = IF current_mode = "browse" THEN "column_management" ELSE "browse"
  /\ previous_mode' = current_mode
  /\ view_model' = IF current_mode' = "column_management"
                     THEN enter_mode(view_model, all_discovered_columns, columns)
                     ELSE view_model
  /\ last' = History("mode", 0, 0, 0, 0, 0)
  /\ UNCHANGED <<entries, filtered_entries, filters, search_term, sort_column, sort_reverse,
                 columns, all_discovered_columns, column_types, current_row, current_column,
                 scroll_row, old_data_count>>
  /\ UNCHANGED <<help_opened_from, ok_available, details_mode, redrawvars, ok_columns>>
  /\ ColumnsFrame

\* ColumnManagementMode.handle_input
ColumnKey ==
  /\ status = "running"
  /\ current_mode = "column_management"

\* what a key that only moves within the view-model leaves alone
ViewModelOnly ==
  /\ UNCHANGED <<entries, filtered_entries, filters, search_term, sort_column, sort_reverse,
                 columns, all_discovered_columns, column_types, current_row, current_column,
                 scroll_row, old_data_count, current_mode, previous_mode>>
  /\ UNCHANGED <<help_opened_from, ok_available, details_mode, redrawvars>>
  /\ ColumnsFrame

\* Tab
ColumnTab ==
  /\ ColumnKey
  /\ view_model' = switch_focus(view_model)
  /\ last' = History("column_key", 0, 0, 0, 0, 0)
  /\ UNCHANGED ok_columns
  /\ ViewModelOnly

\* Enter on a pane: the column under the cursor is selected or deselected;
\* last records the column that was selected before the key (orig)
ColumnSelect ==
  /\ ColumnKey
  /\ view_model.focus # "buttons"
  /\ view_model' = handle_enter(view_model)
  /\ last' = History("column_enter", 0, 0, 0, 0, view_model.selected_column)
  /\ UNCHANGED ok_columns
  /\ ViewModelOnly

\* Up and Down
ColumnUpDown ==
  /\ ColumnKey
  /\ \E delta \in {-1, 1} : view_model' = move_selection(view_model, delta)
  /\ last' = History("column_key", 0, 0, 0, 0, 0)
  /\ UNCHANGED ok_columns
  /\ ViewModelOnly

\* Left and Right
ColumnLeftRight ==
  /\ ColumnKey
  /\ \E key \in ColumnKeys :
       /\ view_model' = IF key = "LEFT" THEN move_focus_left(view_model)
                        ELSE move_focus_right(view_model)
       /\ last' = History(IF key = "LEFT" THEN "column_left" ELSE "column_right",
                          0, 0, 0, 0, view_model.selected_column)
  /\ UNCHANGED ok_columns
  /\ ViewModelOnly

\* Enter on the OK button: _apply_column_changes, back to the previous mode
ColumnOk ==
  /\ ColumnKey
  /\ view_model.focus = "buttons" /\ get_button_action(view_model) = "ok"
  /\ columns' = set_columns_from_names(view_model.selected_columns)
  /\ current_mode' = previous_mode
  /\ last' = History("ok", 0, 0, 0, 0, 0)
  /\ ok_available' = view_model.available_columns
  /\ ok_columns' = columns'
  /\ UNCHANGED <<details_mode, redrawvars>>
  /\ UNCHANGED <<entries, filtered_entries, filters, search_term, sort_column, sort_reverse,
                 all_discovered_columns, column_types, current_row, current_column,
                 scroll_row, old_data_count, previous_mode, view_model>>
  /\ HelpOpened
  /\ ColumnsFrame

\* Enter on the Cancel button
ColumnCancel ==
  /\ ColumnKey
  /\ view_model.focus = "buttons" /\ get_button_action(view_model) = "cancel"
  /\ current_mode' = previous_mode
  /\ last' = History("cancel", 0, 0, 0, 0, 0)
  /\ UNCHANGED <<ok_available, details_mode, redrawvars, ok_columns>>
  /\ UNCHANGED <<entries, filtered_entries, filters, search_term, sort_column, sort_reverse,
                 columns, all_discovered_columns, column_types, current_row, current_column,
                 scroll_row, old_data_count, previous_mode, view_model>>
  /\ HelpOpened
  /\ ColumnsFrame

\* Enter on the Reset button
ColumnReset ==
  /\ ColumnKey
  /\ view_model.focus = "buttons" /\ get_button_action(view_model) = "reset"
  /\ view_model' = reset_to_default(view_model,
                                    get_default_sorted_columns(all_discovered_columns))
  /\ last' = History("reset_columns", 0, 0, 0, 0, 0)
  /\ ok_columns' = NoneVal
  /\ ViewModelOnly

NextColumns ==
  \/ ColumnsTick
  \/ FilterPrompt
  \/ ClearFilters
  \/ MoveColumnKey
  \/ SwitchColumns
  \/ ColumnTab
  \/ ColumnSelect
  \/ ColumnUpDown
  \/ ColumnLeftRight
  \/ ColumnOk
  \/ ColumnCancel
  \/ ColumnReset

SpecColumns == Init /\ [][NextColumns]_vars

(***************************************************************************)
(* Change tracking: State and JLessState as objects on their own.          *)
(* _CHANGES and _WATCHERS are attributes of the class State; an instance   *)
(* reads and updates them through self.  A callback is recorded with the   *)
(* instance it was registered on.  search_term stays "" here.              *)
(***************************************************************************)
MaxStateEntries == 1

StateIds == {"a", "b"}

Callbacks == {"w1", "w2"}

WatchedNames == {"sort_reverse", "columns", "filters_count"}

\* the fields of a JLessState that are read from outside
VisibleFields ==
  {"sort_reverse", "filters", "filters_count", "entries", "num_entries",
   "filtered_entries", "columns", "all_discovered_columns"}

\* JLessState(): the defaults of the dataclass.  __init__ assigns each public
\* field its class default, which __setattr__ does not count as a change.
JLessState ==
  [sort_reverse |-> TRUE, filters |-> <<>>, filters_count |-> 0, entries |-> <<>>,
   num_entries |-> 0, filtered_entries |-> <<>>, columns |-> <<>>,
   all_discovered_columns |-> {}]

\* the lists of entries that are passed to a JLessState
EntryLists == {<<>>, <<LogEntry(ErrLine, 1)>>}

StateFilters == {("level" :> <<"E">>)}

\* State.changes of the instance i: a copy of the set of the class
changes(i) == CHANGES

\* self._WATCHERS[name] of the defaultdict
Watchers(watchers, name) == IF name \in DOMAIN watchers THEN watchers[name] ELSE <<>>

\* the callbacks _notify_watchers invokes for each of the names in turn
RECURSIVE Notified(_, _)
Notified(watchers, names) ==
  IF names = <<>> THEN <<>>
  ELSE Watchers(watchers, Head(names)) \o Notified(watchers, Tail(names))

\* State._changed for each of the names in turn, after marked was added to
\* _CHANGES without a notification
Changed(marked, names) ==
  /\ CHANGES' = CHANGES \cup marked \cup SeqToSet(names)
  /\ calls' = Notified(WATCHERS, names)
  /\ UNCHANGED WATCHERS

\* the application around the State objects is not looked at
AppUnchanged ==
  UNCHANGED <<entries, filtered_entries, filters, search_term, sort_column, sort_reverse,
              columns, all_discovered_columns, column_types, current_row, current_column,
              scroll_row, old_data_count, current_mode, previous_mode, input_mode,
              input_column, status, last, view_model, followvars, promptvars,
              filters_count, help_opened_from, ok_available, details_mode, redrawvars, ok_columns>>

\* JLessState() for the instance i
Construct(i) ==
  /\ i \notin DOMAIN instances
  /\ instances' = (i :> JLessState) @@ instances
  /\ calls' = <<>>
  /\ UNCHANGED <<CHANGES, WATCHERS>>
  /\ AppUnchanged

\* the one JLessState of the application
ConstructFirst == Construct("a")

\* a JLessState, whether or not another one exists
ConstructAny == \E i \in StateIds : Construct(i)

\* State.__setattr__ on a public field: state.sort_reverse = value
SetSortReverse ==
  \E i \in DOMAIN instances, value \in BOOLEAN :
    /\ instances' = [instances EXCEPT ![i].sort_reverse = value]
    /\ IF instances[i].sort_reverse # value
         THEN Changed({}, <<"sort_reverse">>)
         ELSE calls' = <<>> /\ UNCHANGED <<CHANGES, WATCHERS>>
    /\ AppUnchanged

\* State.register_watcher; each callback is registered once
RegisterWatcher ==
  \E i \in DOMAIN instances, name \in WatchedNames, cb \in Callbacks :
    /\ \A n \in DOMAIN WATCHERS : \A k \in 1..Len(WATCHERS[n]) : WATCHERS[n][k].cb # cb
    /\ WATCHERS' = (name :> Append(Watchers(WATCHERS, name), [on |-> i, cb |-> cb])) @@ WATCHERS
    /\ calls' = <<>>
    /\ UNCHANGED <<CHANGES, instances>>
    /\ AppUnchanged

\* State.clear_changes
ClearChanges ==
  \E i \in DOMAIN instances :
    /\ CHANGES' = {}
    /\ calls' = <<>>
    /\ UNCHANGED <<WATCHERS, instances>>
    /\ AppUnchanged

\* JLessState.update_filters
StateUpdateFilters ==
  \E i \in DOMAIN instances, new \in StateFilters :
    /\ instances' = [instances EXCEPT ![i].filters = new @@ @,
                                      ![i].filters_count =
                                        Cardinality(DOMAIN (new @@ instances[i].filters))]
    /\ calls' = <<>>
    /\ UNCHANGED <<CHANGES, WATCHERS>>
    /\ AppUnchanged

\* JLessState.clear_filters
StateClearFilters ==
  \E i \in DOMAIN instances :
    /\ instances' = [instances EXCEPT ![i].filters = <<>>, ![i].filters_count = 0]
    /\ calls' = <<>>
    /\ UNCHANGED <<CHANGES, WATCHERS>>
    /\ AppUnchanged

\* JLessState.extend_entries
StateExtendEntries ==
  \E i \in DOMAIN instances, new \in EntryLists :
    /\ Len(instances[i].entries) + Len(new) <= MaxStateEntries
    /\ IF new = <<>>
         THEN calls' = <<>> /\ UNCHANGED <<instances, CHANGES, WATCHERS>>
         ELSE /\ instances' = [instances EXCEPT ![i].entries = @ \o new,
                                                ![i].num_entries = @ + Len(new)]
              /\ Changed({}, <<"entries", "num_entries">>)
    /\ AppUnchanged

\* JLessState.set_entries
StateSetEntries ==
  \E i \in DOMAIN instances, new \in EntryLists :
    /\ Len(new) <= MaxStateEntries
    /\ instances' = [instances EXCEPT ![i].entries = new, ![i].num_entries = Len(new)]
    /\ Changed({}, <<"num_entries">>)
    /\ AppUnchanged

\* JLessState.set_filtered_entries, with _detect_columns
StateSetFilteredEntries ==
  \E i \in DOMAIN instances, filtered \in EntryLists :
    /\ instances' = [instances EXCEPT
                       ![i].filtered_entries = filtered,
                       ![i].columns = detect_columns(filtered),
                       ![i].all_discovered_columns = update_discovered(@, filtered)]
    /\ Changed({"columns", "all_discovered_columns"}, <<"filtered_entries">>)
    /\ AppUnchanged

\* JLessState.move_column
StateMoveColumn ==
  \E i \in DOMAIN instances :
    \E from_idx, to_idx \in 0..(Len(instances[i].columns) - 1) :
      /\ instances' = [instances EXCEPT ![i].columns = move_column(@, from_idx, to_idx)]
      /\ Changed({}, <<"columns">>)
      /\ AppUnchanged

NextState ==
  \/ ConstructFirst
  \/ SetSortReverse
  \/ RegisterWatcher
  \/ ClearChanges
  \/ StateUpdateFilters
  \/ StateClearFilters
  \/ StateExtendEntries
  \/ StateSetEntries
  \/ StateSetFilteredEntries
  \/ StateMoveColumn

SpecState == Init /\ [][NextState]_vars

\* two JLessState objects in one process
NextInstances ==
  \/ ConstructAny
  \/ SetSortReverse
  \/ RegisterWatcher
  \/ ClearChanges

SpecInstances == Init /\ [][NextInstances]_vars

(***************************************************************************)
(* Follow mode: JLess.run reads keys with a timeout, and a timeout with no *)
(* key pressed (getch returns -1) is the tick that looks for new lines.    *)
(* source holds the lines appended to the file and not yet read; timeout   *)
(* is the value last given to stdscr.timeout (-1 blocks until a key).  Of  *)
(* the names in State._CHANGES only follow_mode is followed here, the one  *)
(* run reads.                                                              *)
(***************************************************************************)
MaxFollowLines == 3

\* JLessState(), JLess.__init__ with or without --no-follow
\* (BrowseMode.__init__ assigns follow_mode = not no_follow), and the
\* first lines of run: stdscr.timeout(1000)
InitFollow ==
  /\ entries = <<>>
  /\ filtered_entries = <<>>
  /\ filters = <<>>
  /\ search_term = <<>>
  /\ sort_column = "#"
  /\ sort_reverse = TRUE
  /\ columns = <<>>
  /\ all_discovered_columns = {}
  /\ column_types = ("#" :> "int")
  /\ current_row = 0
  /\ current_column = "#"
  /\ scroll_row = 0
  /\ old_data_count = 0
  /\ current_mode = "browse"
  /\ previous_mode = "browse"
  /\ input_mode = NoneVal
  /\ input_column = NoneVal
  /\ status = "running"
  /\ last = History("init", 0, 0, 0, 0, 0)
  /\ view_model = ColumnManagementViewModel
  /\ WATCHERS = <<>>
  /\ instances = <<>>
  /\ calls = <<>>
  /\ follow_mode \in BOOLEAN
  /\ CHANGES = IF follow_mode THEN {} ELSE {"follow_mode"}
  /\ timeout = 1000
  /\ source = <<>>
  /\ input_buffer = <<>>
  /\ input_cursor_pos = 0
  /\ filters_count = 0
  /\ help_opened_from = NoneVal
  /\ ok_available = NoneVal
  /\ details_mode = DetailsMode
  /\ needs_redraw = [s \in Surfaces |-> TRUE]
  /\ drawn = [s \in Surfaces |-> NoneVal]
  /\ ok_columns = NoneVal

\* the end of an iteration of run: the timeout follows follow_mode when
\* follow_mode is among the changes, and the changes are cleared
EndOfIteration(changed) ==
  /\ timeout' = IF "follow_mode" \in changed
                  THEN (IF follow_mode' THEN 1000 ELSE -1)
                  ELSE timeout
  /\ CHANGES' = {}

\* what the actions of this specification leave alone
FollowFrame ==
  UNCHANGED <<filters, search_term, sort_column, sort_reverse, current_column,
              current_mode, previous_mode, input_mode, input_column, status,
              view_model, WATCHERS, instances, calls, promptvars, filters_count,
              help_opened_from, ok_available, details_mode, redrawvars, ok_columns>>

\* JLessModel.load_entries: every line of the file not read yet
ReadSource ==
  /\ entries' = entries \o NewEntries(source, Len(entries) + 1)
  /\ column_types' = CombineAll(column_types, NewEntries(source, Len(entries) + 1))
  /\ source' = <<>>

\* the file grows by a line
SourceGrows ==
  /\ status = "running"
  /\ Len(entries) + Len(source) < MaxFollowLines
  /\ \E ln \in SourceLines : source' = Append(source, ln)
  /\ UNCHANGED <<entries, filtered_entries, columns, all_discovered_columns,
                 column_types, current_row, scroll_row, old_data_count, last,
                 follow_mode, timeout, CHANGES>>
  /\ FollowFrame

\* run, key == -1: getch returns -1 only under a finite timeout;
\* update_entries, and set_data when it found new lines
FollowTick ==
  /\ status = "running"
  /\ timeout = 1000
  /\ ReadSource
  /\ FollowFrame
  /\ IF source # <<>>
       THEN /\ Refilter
            /\ current_row' = set_data(current_row, old_data_count,
                                       Len(filtered_entries'), sort_reverse)
            /\ scroll_row' = set_data_scroll(scroll_row, Len(filtered_entries'))
       ELSE UNCHANGED <<filtered_entries, columns, all_discovered_columns,
                        old_data_count, current_row, scroll_row>>
  /\ UNCHANGED follow_mode
  /\ EndOfIteration(CHANGES)
  /\ last' = History("tick", 0, current_row, Len(filtered_entries),
                     LineAt(filtered_entries, current_row), 0)

\* 'F': BrowseMode.handle_input toggles follow_mode
FollowKey ==
  /\ BrowseKey
  /\ follow_mode' = ~follow_mode
  /\ EndOfIteration(CHANGES \cup {"follow_mode"})
  /\ UNCHANGED <<entries, filtered_entries, columns, all_discovered_columns,
                 column_types, current_row, scroll_row, old_data_count, source>>
  /\ FollowFrame
  /\ last' = History("follow", 0, current_row, Len(filtered_entries),
                     LineAt(filtered_entries, current_row), 0)

\* 'r': JLess._load_entries (load_entries, apply_filters, set_data twice),
\* then JLess._apply_filters (apply_filters, set_data)
ReloadKey ==
  /\ BrowseKey
  /\ ReadSource
  /\ FollowFrame
  /\ Refilter
  /\ current_row' =
       set_data(set_data(current_row, old_data_count, Len(filtered_entries'),
                         sort_reverse),
                Len(filtered_entries'), Len(filtered_entries'), sort_reverse)
  /\ scroll_row' = set_data_scroll(scroll_row, Len(filtered_entries'))
  /\ UNCHANGED follow_mode
  /\ EndOfIteration(CHANGES)
  /\ last' = History("reload", 0, current_row, Len(filtered_entries),
                     LineAt(filtered_entries, current_row), 0)

\* KEY_RESIZE: update_terminal_size; the terminal size is not followed
ResizeKey ==
  /\ status = "running"
  /\ UNCHANGED <<entries, filtered_entries, columns, all_discovered_columns,
                 column_types, current_row, scroll_row, old_data_count, source,
                 follow_mode>>
  /\ FollowFrame
  /\ EndOfIteration(CHANGES)
  /\ last' = History("resize", 0, current_row, Len(filtered_entries),
                     LineAt(filtered_entries, current_row), 0)

NextFollow ==
  \/ SourceGrows
  \/ FollowTick
  \/ FollowKey
  \/ ReloadKey
  \/ ResizeKey

\* getch returns -1 once no key has been pressed for a second: a tick that
\* stays possible is taken
SpecFollow == InitFollow /\ [][NextFollow]_vars /\ WF_vars(FollowTick)

(***************************************************************************)
(* The modes: JLess._switch_mode on 'd', 'm', 'h' and '?', pressed in any  *)
(* mode, and the buttons of Column Management, which go back to            *)
(* previous_mode.  HelpMode.handle_input does nothing.                     *)
(***************************************************************************)
SwitchKeys == {"d", "m", "h", "?"}

\* current_mode after _switch_mode
switch_mode(key, mode, previous) ==
  IF key = "d" THEN (IF mode = "browse" THEN "details" ELSE "browse")
  ELSE IF key = "m" THEN (IF mode = "browse" THEN "column_management" ELSE "browse")
  ELSE IF mode # "help" THEN "help"
  ELSE previous

\* last records the key, the mode it was pressed in (orig) and the mode
\* that was active when Help was opened (line)
SwitchMode ==
  /\ status = "running"
  /\ \E key \in SwitchKeys :
       /\ current_mode' = switch_mode(key, current_mode, previous_mode)
       /\ last' = History("switch", key, 0, 0, help_opened_from, current_mode)
  /\ previous_mode' = current_mode
  /\ status' = IF current_mode' = "details"
                    /\ EnterDetailsRaises(filtered_entries, current_row)
                 THEN "crashed" ELSE "running"
  /\ view_model' = IF current_mode' = "column_management"
                     THEN enter_mode(view_model, all_discovered_columns, columns)
                     ELSE view_model
  /\ HelpOpened
  /\ UNCHANGED <<entries, filtered_entries, filters, search_term, sort_column, sort_reverse,
                 columns, all_discovered_columns, column_types, current_row, current_column,
                 scroll_row, old_data_count, input_mode, input_column>>
  /\ details_mode' = IF current_mode' = "details"
                       THEN enter_details(details_mode, filtered_entries, current_row)
                       ELSE details_mode
  /\ UNCHANGED <<trackvars, followvars, promptvars, filters_count, ok_available, redrawvars, ok_columns>>

NextModes ==
  \/ ColumnsTick
  \/ SwitchMode
  \/ ColumnTab
  \/ ColumnUpDown
  \/ ColumnOk
  \/ ColumnCancel

SpecModes == Init /\ [][NextModes]_vars

(***************************************************************************)
(* The prompts of Browse, key by key: '/', 'f' and 'g' open a prompt,     *)
(* the keys typed edit input_buffer at input_cursor_pos, Enter commits.    *)
(* JLess.run returns on Esc before any mode sees the key.  The sort stays  *)
(* the default one and the column the one at the left.  last records the   *)
(* key (op), the prompt it was pressed in (arg), current_row and the       *)
(* buffer before it (row, line), and the search term and the filters at    *)
(* the time the prompt was opened (orig).                                  *)
(***************************************************************************)
MaxPromptEntries == 1
MaxBuffer == 2

PromptChars == {"1", "E"}
EditKeys == {"BACKSPACE", "DC", "LEFT", "RIGHT"}

\* s[:n] and s[n:] of Python; a negative n counts from the end
PyPrefix(s, n) ==
  IF n >= 0 THEN SubSeq(s, 1, Min(n, Len(s))) ELSE SubSeq(s, 1, Max(0, Len(s) + n))

PySuffix(s, n) == SubSeq(s, Min(n, Len(s)) + 1, Len(s))

\* int(input_buffer) of a buffer over PromptChars raises ValueError unless
\* the buffer is a non-empty run of digits
IsNumeric(buf) ==
  buf # <<>> /\ \A i \in 1..Len(buf) : \E d \in 1..10 : Digits[d] = buf[i]

DigitValue(ch) == (CHOOSE d \in 1..10 : Digits[d] = ch) - 1

RECURSIVE ParseInt(_)
ParseInt(buf) ==
  IF buf = <<>> THEN 0
  ELSE 10 * ParseInt(SubSeq(buf, 1, Len(buf) - 1)) + DigitValue(buf[Len(buf)])

\* the search term and the filters, as they are when a prompt is opened
Committed == [search_term |-> search_term, filters |-> filters]

\* JLess._apply_filters: apply_filters, then set_data from row and scroll
ApplyFilters(row, scroll) ==
  /\ Refilter
  /\ current_row' = set_data(row, old_data_count, Len(filtered_entries'), sort_reverse)
  /\ scroll_row' = set_data_scroll(scroll, Len(filtered_entries'))

\* what the keys of a prompt leave alone
PromptFrame ==
  UNCHANGED <<sort_column, sort_reverse, current_column, current_mode, previous_mode,
              view_model, trackvars, followvars, help_opened_from, ok_available,
              details_mode, redrawvars, ok_columns>>

\* run, key == -1: a read of the input source returns one line
PromptTick ==
  /\ status = "running"
  /\ Len(entries) < MaxPromptEntries
  /\ \E line \in SourceLines :
       /\ entries' = load_entries(entries, <<line>>)
       /\ column_types' = CombineAll(column_types, NewEntries(<<line>>, Len(entries) + 1))
  /\ UNCHANGED <<filters, search_term, input_mode, input_column, promptvars,
                 filters_count, status>>
  /\ PromptFrame
  /\ ApplyFilters(current_row, scroll_row)
  /\ last' = IF input_mode = NoneVal THEN History("tick", 0, 0, 0, 0, 0)
             ELSE [last EXCEPT !.op = "tick"]

\* '/', 'f' and 'g' with no prompt open; 'f' does nothing without a column
OpenPrompt ==
  /\ BrowseKey
  /\ \E mode \in {"search", "filter", "goto"} :
       /\ mode = "filter" => get_current_column(columns, current_column) # ""
       /\ input_mode' = mode
       /\ input_column' = IF mode = "filter"
                            THEN get_current_column(columns, current_column)
                            ELSE input_column
       /\ input_buffer' =
            IF mode = "search" THEN search_term
            ELSE IF mode = "goto" THEN <<>>
            ELSE IF input_column' \in DOMAIN filters THEN filters[input_column']
            ELSE <<>>
       /\ last' = History("open", mode, current_row, 0, input_buffer, Committed)
  /\ UNCHANGED <<entries, filtered_entries, filters, search_term, columns,
                 all_discovered_columns, column_types, current_row, scroll_row,
                 old_data_count, input_cursor_pos, filters_count, status>>
  /\ PromptFrame

\* _handle_input_submode on Backspace, Delete, Left, Right and a printable
\* character
edit_buffer(key, buf, pos) ==
  IF key = "BACKSPACE" THEN PyPrefix(buf, pos - 1) \o PySuffix(buf, pos)
  ELSE IF key = "DC" THEN PyPrefix(buf, pos) \o PySuffix(buf, pos + 1)
  ELSE IF key \in {"LEFT", "RIGHT"} THEN buf
  ELSE PyPrefix(buf, pos) \o <<key>> \o PySuffix(buf, pos)

edit_cursor(key, buf, pos) ==
  IF key \in {"BACKSPACE", "LEFT"} THEN Max(0, pos - 1)
  ELSE IF key = "DC" THEN pos
  ELSE IF key = "RIGHT" THEN Min(Len(buf), pos + 1)
  ELSE pos + 1

PromptEdit ==
  /\ status = "running"
  /\ current_mode = "browse"
  /\ input_mode # NoneVal
  /\ \E key \in EditKeys \cup PromptChars :
       /\ Len(edit_buffer(key, input_buffer, input_cursor_pos)) <= MaxBuffer
       /\ input_buffer' = edit_buffer(key, input_buffer, input_cursor_pos)
       /\ input_cursor_pos' = edit_cursor(key, input_buffer, input_cursor_pos)
       /\ last' = [last EXCEPT !.op = "edit", !.arg = input_mode, !.row = current_row,
                               !.line = input_buffer]
  /\ UNCHANGED <<entries, filtered_entries, filters, search_term, columns,
                 all_discovered_columns, column_types, current_row, scroll_row,
                 old_data_count, input_mode, input_column, filters_count, status>>
  /\ PromptFrame

\* Enter in a prompt: the commit of the prompt, _apply_filters, and the
\* prompt is closed.  A ValueError out of goto_line is not caught: the
\* lines after the call do not run.
PromptEnter ==
  /\ status = "running"
  /\ current_mode = "browse"
  /\ input_mode # NoneVal
  /\ last' = [last EXCEPT !.op = "enter", !.arg = input_mode, !.row = current_row,
                          !.line = input_buffer]
  /\ UNCHANGED <<entries, column_types>>
  /\ PromptFrame
  /\ IF input_mode = "goto" /\ IsNumeric(input_buffer)
          /\ GotoRaises(ParseInt(input_buffer), filtered_entries)
       THEN /\ status' = "crashed"
            /\ UNCHANGED <<filtered_entries, filters, search_term, columns,
                           all_discovered_columns, current_row, scroll_row,
                           old_data_count, input_mode, input_column, promptvars,
                           filters_count>>
       ELSE /\ search_term' = IF input_mode = "search" THEN input_buffer ELSE search_term
            /\ filters' = IF input_mode = "filter" /\ input_column # NoneVal
                            THEN (input_column :> input_buffer) @@ filters
                            ELSE filters
            /\ filters_count' = IF input_mode = "filter" /\ input_column # NoneVal
                                  THEN count_filters(filters', search_term)
                                  ELSE filters_count
            /\ IF input_mode = "goto" /\ IsNumeric(input_buffer)
                 THEN ApplyFilters(GotoRow(ParseInt(input_buffer), filtered_entries,
                                           current_row),
                                   GotoScroll(ParseInt(input_buffer), filtered_entries,
                                              scroll_row))
                 ELSE ApplyFilters(current_row, scroll_row)
            /\ input_mode' = NoneVal
            /\ input_buffer' = <<>>
            /\ input_column' = NoneVal
            /\ input_cursor_pos' = 0
            /\ status' = "running"

\* Esc in a prompt: run returns, and no handler of Browse sees the key
PromptEsc ==
  /\ status = "running"
  /\ current_mode = "browse"
  /\ input_mode # NoneVal
  /\ status' = "quit"
  /\ last' = [last EXCEPT !.op = "esc", !.arg = input_mode, !.row = current_row,
                          !.line = input_buffer]
  /\ UNCHANGED <<entries, filtered_entries, filters, search_term, columns,
                 all_discovered_columns, column_types, current_row, scroll_row,
                 old_data_count, input_mode, input_column, promptvars, filters_count>>
  /\ PromptFrame

NextPrompt ==
  \/ PromptTick
  \/ OpenPrompt
  \/ PromptEdit
  \/ PromptEnter
  \/ PromptEsc
  \/ ClearFilters
  \/ ResetKey

SpecPrompt == Init /\ [][NextPrompt]_vars

(***************************************************************************)
(* The keys of an open prompt, as JLess.run dispatches them: 'q' returns   *)
(* and 'd', 'm', 'h' and '?' go to _switch_mode before any mode sees the   *)
(* key; every other key pressed in Browse with input_mode set goes to      *)
(* _handle_input_submode.  The input source stays empty and the prompt    *)
(* open.  last records the key (arg), and the cursor and the buffer        *)
(* before it (row, line).                                                  *)
(***************************************************************************)
MaxEdited == 3

\* a key that reaches _handle_input_submode; the buffer holds at most
\* MaxEdited characters
EditKey ==
  /\ status = "running"
  /\ current_mode = "browse"
  /\ input_mode # NoneVal
  /\ \E key \in EditKeys \cup PromptChars :
       /\ Len(edit_buffer(key, input_buffer, input_cursor_pos)) <= MaxEdited
       /\ input_buffer' = edit_buffer(key, input_buffer, input_cursor_pos)
       /\ input_cursor_pos' = edit_cursor(key, input_buffer, input_cursor_pos)
       /\ last' = History("key", key, input_cursor_pos, 0, input_buffer, 0)
  /\ UNCHANGED <<entries, filtered_entries, filters, search_term, columns,
                 all_discovered_columns, column_types, current_row, scroll_row,
                 old_data_count, input_mode, input_column, filters_count, status>>
  /\ PromptFrame

\* 'q' in any mode, a prompt open or not: run returns
QuitKey ==
  /\ status = "running"
  /\ status' = "quit"
  /\ last' = History("key", "q", input_cursor_pos, 0, input_buffer, 0)
  /\ UNCHANGED <<entries, filtered_entries, filters, search_term, columns,
                 all_discovered_columns, column_types, current_row, scroll_row,
                 old_data_count, input_mode, input_column, promptvars, filters_count>>
  /\ PromptFrame

NextEdit ==
  \/ OpenPrompt
  \/ EditKey
  \/ QuitKey
  \/ SwitchMode

SpecEdit == Init /\ [][NextEdit]_vars

(***************************************************************************)
(* The Details view, field by field: entries with two fields, one field    *)
(* and none; 'd' enters and leaves Details, Up and Down move the field     *)
(* cursor, Left and Right step to another entry.  Every iteration of run   *)
(* in Details ends with DetailsMode.draw.  No filter is set.  last records *)
(* the key of Up and Down (arg), the field cursor before it (row) and the  *)
(* operation before it (orig).                                             *)
(***************************************************************************)
MaxFieldEntries == 2

\* {"level": "inf", "n": 1}
TwoLine ==
  [raw |-> <<"{", "\"", "l", "e", "v", "e", "l", "\"", ":", " ",
             "\"", "i", "n", "f", "\"", ",", " ", "\"", "n", "\"", ":", " ", "1", "}">>,
   data |-> [level |-> <<"i", "n", "f">>, n |-> 1],
   types |-> [level |-> "str", n |-> "int"],
   timestamp |-> 0,
   valid |-> TRUE]

\* {}
EmptyLine ==
  [raw |-> <<"{", "}">>,
   data |-> <<>>,
   types |-> <<>>,
   timestamp |-> 0,
   valid |-> TRUE]

FieldLines == {TwoLine, InfLine, EmptyLine}

\* run, key == -1: a read of the input source returns one line; the draw
\* of Details follows when Details is the mode
FieldsTick ==
  /\ status = "running"
  /\ Len(entries) < MaxFieldEntries
  /\ \E line \in FieldLines :
       /\ entries' = load_entries(entries, <<line>>)
       /\ column_types' = CombineAll(column_types, NewEntries(<<line>>, Len(entries) + 1))
  /\ UNCHANGED <<filters, search_term, sort_column, sort_reverse, current_column,
                 current_mode, previous_mode, input_mode, input_column, promptvars,
                 filters_count, view_model, trackvars, followvars, help_opened_from,
                 ok_available, redrawvars, ok_columns>>
  /\ ApplyFilters(current_row, scroll_row)
  /\ status' = IF current_mode = "details" /\ DetailsDrawRaises(filtered_entries', current_row')
                 THEN "crashed" ELSE "running"
  /\ details_mode' = IF current_mode = "details"
                       THEN details_draw(details_mode, filtered_entries', current_row')
                       ELSE details_mode
  /\ last' = History("tick", 0, 0, 0, 0, 0)

\* DetailsMode.handle_input on Up and Down
field_key(key, dm) ==
  IF key = "UP"
    THEN (IF dm.current_field > 0
            THEN [dm EXCEPT !.current_field = dm.current_field - 1] ELSE dm)
    ELSE (IF dm.current_field < dm.field_count - 1
            THEN [dm EXCEPT !.current_field = dm.current_field + 1] ELSE dm)

\* Up and Down in Details, and the draw of Details
DetailsFieldKey ==
  /\ status = "running"
  /\ current_mode = "details"
  /\ \E key \in {"UP", "DOWN"} :
       /\ details_mode' = details_draw(field_key(key, details_mode), filtered_entries,
                                       current_row)
       /\ last' = History("field", key, details_mode.current_field, 0, 0, last.op)
  /\ status' = IF DetailsDrawRaises(filtered_entries, current_row) THEN "crashed" ELSE "running"
  /\ UNCHANGED <<entries, filtered_entries, filters, search_term, sort_column, sort_reverse,
                 columns, all_discovered_columns, column_types, current_row, current_column,
                 scroll_row, old_data_count, current_mode, previous_mode, input_mode,
                 input_column, promptvars, filters_count, view_model, trackvars, followvars,
                 help_opened_from, ok_available, redrawvars, ok_columns>>

NextFields ==
  \/ FieldsTick
  \/ SwitchMode
  \/ DetailsFieldKey
  \/ DetailsNavigate

SpecFields == Init /\ [][NextFields]_vars

(***************************************************************************)
(* Redrawing.  JLessModel.__init__ registers the callbacks that set        *)
(* _needs_header_redraw and _needs_footer_redraw, EntriesModel.__init__    *)
(* the one that sets EntriesWindow._needs_redraw.  A public field of the   *)
(* state notifies its watchers when an assignment changes its value        *)
(* (State.__setattr__); a private one only where the code calls _changed.  *)
(* Every iteration of run ends with the draw step: the header and the      *)
(* footer are drawn when their flag is set, the entries only in Browse,    *)
(* and the flag of what was drawn is cleared.  The terminal keeps its      *)
(* size.  drawn records the watched values a surface showed when it was    *)
(* last drawn.                                                             *)
(***************************************************************************)
MaxRedrawEntries == 2

\* the fields whose watchers set the flag of each surface
WatchedFields ==
  [header |-> {"current_mode"},
   footer |-> {"current_mode", "follow_mode", "current_row", "sort_column", "sort_reverse",
               "filters_count", "search_term", "input_mode", "input_buffer",
               "input_column", "input_cursor_pos"},
   entries |-> {"current_mode", "num_entries", "current_row", "current_column",
                "sort_column", "sort_reverse", "filters_count", "search_term", "columns",
                "filtered_entries"}]

\* the fields assigned through State.__setattr__
PublicFields ==
  {"current_mode", "previous_mode", "follow_mode", "current_row", "current_column",
   "sort_column", "sort_reverse", "input_mode", "input_column", "input_buffer",
   "input_cursor_pos", "search_term"}

\* the value of a field of the state
StateField(name) ==
  CASE name = "current_mode" -> current_mode
    [] name = "previous_mode" -> previous_mode
    [] name = "follow_mode" -> follow_mode
    [] name = "current_row" -> current_row
    [] name = "current_column" -> current_column
    [] name = "sort_column" -> sort_column
    [] name = "sort_reverse" -> sort_reverse
    [] name = "input_mode" -> input_mode
    [] name = "input_column" -> input_column
    [] name = "input_buffer" -> input_buffer
    [] name = "input_cursor_pos" -> input_cursor_pos
    [] name = "search_term" -> search_term
    [] name = "filters_count" -> filters_count
    [] name = "num_entries" -> Len(entries)
    [] name = "columns" -> columns
    [] name = "filtered_entries" -> filtered_entries

\* what a surface shows of the state
WatchedValues(surface) == [name \in WatchedFields[surface] |-> StateField(name)]

\* the end of an iteration of run: the watchers of the fields notified in
\* it (those passed to _changed, and the public fields whose value changed)
\* have set the flags; a surface whose flag is set and whose draw step runs
\* is drawn, and its flag is cleared
DrawStep(changed) ==
  LET notified == changed \cup {name \in PublicFields : StateField(name)' # StateField(name)}
      armed(s) == needs_redraw[s] \/ WatchedFields[s] \cap notified # {}
      draws(s) == s # "entries" \/ current_mode' = "browse"
  IN /\ needs_redraw' = [s \in Surfaces |-> armed(s) /\ ~draws(s)]
     /\ drawn' = [s \in Surfaces |-> IF armed(s) /\ draws(s) THEN WatchedValues(s)'
                                     ELSE drawn[s]]

\* what the actions of this specification leave alone
RedrawFrame ==
  UNCHANGED <<search_term, sort_column, sort_reverse, current_column, status, view_model,
              trackvars, followvars, ok_available, details_mode, ok_columns>>

\* run, key == -1, in any mode: a read of the input source returns one
\* line; extend_entries and set_filtered_entries call _changed
RedrawTick ==
  /\ status = "running"
  /\ Len(entries) < MaxRedrawEntries
  /\ \E line \in SourceLines :
       /\ entries' = load_entries(entries, <<line>>)
       /\ column_types' = CombineAll(column_types, NewEntries(<<line>>, Len(entries) + 1))
  /\ UNCHANGED <<filters, current_mode, previous_mode, input_mode, input_column,
                 promptvars, filters_count>>
  /\ RedrawFrame
  /\ UNCHANGED help_opened_from
  /\ ApplyFilters(current_row, scroll_row)
  /\ last' = History("tick", 0, 0, 0, 0, 0)
  /\ DrawStep({"entries", "num_entries", "filtered_entries"})

\* 'f' in Browse with a column to filter on
RedrawOpenFilter ==
  /\ BrowseKey
  /\ get_current_column(columns, current_column) # ""
  /\ input_mode' = "filter"
  /\ input_column' = get_current_column(columns, current_column)
  /\ input_buffer' = IF input_column' \in DOMAIN filters THEN filters[input_column'] ELSE <<>>
  /\ last' = History("open", 0, 0, 0, 0, 0)
  /\ UNCHANGED <<entries, filtered_entries, filters, columns, all_discovered_columns,
                 column_types, current_row, scroll_row, old_data_count, current_mode,
                 previous_mode, input_cursor_pos, filters_count>>
  /\ RedrawFrame
  /\ UNCHANGED help_opened_from
  /\ DrawStep({})

\* a character typed in the prompt
RedrawType ==
  /\ status = "running"
  /\ current_mode = "browse"
  /\ input_mode # NoneVal
  /\ Len(input_buffer) < MaxBuffer
  /\ \E key \in PromptChars :
       /\ input_buffer' = edit_buffer(key, input_buffer, input_cursor_pos)
       /\ input_cursor_pos' = edit_cursor(key, input_buffer, input_cursor_pos)
  /\ last' = History("type", 0, 0, 0, 0, 0)
  /\ UNCHANGED <<entries, filtered_entries, filters, columns, all_discovered_columns,
                 column_types, current_row, scroll_row, old_data_count, current_mode,
                 previous_mode, input_mode, input_column, filters_count>>
  /\ RedrawFrame
  /\ UNCHANGED help_opened_from
  /\ DrawStep({})

\* Enter in the filter prompt: update_filters, the prompt is closed,
\* _apply_filters
RedrawEnter ==
  /\ status = "running"
  /\ current_mode = "browse"
  /\ input_mode = "filter"
  /\ filters' = (input_column :> input_buffer) @@ filters
  /\ filters_count' = count_filters(filters', search_term)
  /\ input_mode' = NoneVal
  /\ input_buffer' = <<>>
  /\ input_column' = NoneVal
  /\ input_cursor_pos' = 0
  /\ UNCHANGED <<entries, column_types, current_mode, previous_mode>>
  /\ RedrawFrame
  /\ UNCHANGED help_opened_from
  /\ ApplyFilters(current_row, scroll_row)
  /\ last' = History("enter", 0, 0, 0, 0, 0)
  /\ DrawStep({"filtered_entries"})

\* 'c' in Browse: clear_filters, which calls no _changed, then _apply_filters
RedrawClear ==
  /\ BrowseKey
  /\ filters' = <<>>
  /\ filters_count' = count_filters(<<>>, search_term)
  /\ UNCHANGED <<entries, column_types, current_mode, previous_mode, input_mode,
                 input_column, promptvars>>
  /\ RedrawFrame
  /\ UNCHANGED help_opened_from
  /\ ApplyFilters(current_row, scroll_row)
  /\ last' = History("clear", 0, 0, 0, 0, 0)
  /\ DrawStep({"filtered_entries"})

\* Up and Down in Browse
RedrawNavigate ==
  /\ BrowseKey
  /\ filtered_entries # <<>>
  /\ \E key \in {"UP", "DOWN"} :
       /\ current_row' = NavRow(key, current_row, Len(filtered_entries))
       /\ scroll_row' = NavScroll(key, current_row, scroll_row, Len(filtered_entries))
  /\ last' = History("nav", 0, 0, 0, 0, 0)
  /\ UNCHANGED <<entries, filtered_entries, filters, columns, all_discovered_columns,
                 column_types, old_data_count, current_mode, previous_mode, input_mode,
                 input_column, promptvars, filters_count>>
  /\ RedrawFrame
  /\ UNCHANGED help_opened_from
  /\ DrawStep({})

\* 'h' in Browse and in Help: _switch_mode
RedrawHelp ==
  /\ status = "running"
  /\ current_mode' = switch_mode("h", current_mode, previous_mode)
  /\ previous_mode' = current_mode
  /\ last' = History("switch", "h", 0, 0, 0, current_mode)
  /\ UNCHANGED <<entries, filtered_entries, filters, columns, all_discovered_columns,
                 column_types, current_row, scroll_row, old_data_count, input_mode,
                 input_column, promptvars, filters_count>>
  /\ RedrawFrame
  /\ HelpOpened
  /\ DrawStep({})

NextRedraw ==
  \/ RedrawTick
  \/ RedrawOpenFilter
  \/ RedrawType
  \/ RedrawEnter
  \/ RedrawClear
  \/ RedrawNavigate
  \/ RedrawHelp

SpecRedraw == Init /\ [][NextRedraw]_vars

TypeOK ==
  /\ status \in {"running", "crashed", "quit"}
  /\ Len(entries) <= MaxEntries
  /\ old_data_count = Len(filtered_entries)

(***************************************************************************)
(* Properties of the navigation and scroll model.  last records the        *)
(* operation that led to the current state: its name, the goto target, and *)
(* the row, the list length and the selected line number it started from.  *)
(***************************************************************************)
FilterActive == DOMAIN filters # {}

Abs(x) == IF x < 0 THEN -x ELSE x

\* C1: after any sequence of loads, filter or sort changes, navigation,
\* goto-line and reset, current_row is within 0..len(filtered_entries)-1
\* when filtered_entries is non-empty, and is 0 when it is empty.
C1_CurrentRowInRange ==
  IF filtered_entries = <<>>
    THEN current_row = 0
    ELSE 0 <= current_row /\ current_row <= Len(filtered_entries) - 1

\* C2: after applying a column filter or clearing all filters, if the entry
\* selected before is still in filtered_entries then the entry selected
\* afterwards has the same line number.
C2_FilterKeepsLine ==
  (last.op \in {"filter", "clear"} /\ last.line # 0
     /\ last.line \in LineNumbers(filtered_entries))
    => LineAt(filtered_entries, current_row) = last.line

\* C3: with a descending sort and current_row = 0, an update tick that
\* brings new entries leaves current_row = 0; when the sort column is '#',
\* row 0 is then the entry with the largest line number, which is the
\* newest line whenever that line passes the filters.
C3_TopStaysPinned ==
  (last.op = "tick" /\ sort_reverse /\ last.row = 0)
    => /\ current_row = 0
       /\ (sort_column = "#" /\ filtered_entries # <<>>)
            => \A l \in LineNumbers(filtered_entries) :
                 l <= LineAt(filtered_entries, current_row)
       /\ (sort_column = "#" /\ Len(entries) \in LineNumbers(filtered_entries))
            => LineAt(filtered_entries, current_row) = Len(entries)

\* C3 happens: two lines arrive while row 0 of a non-empty list is selected
\* under the default sort, and row 0 becomes the newest of them
C3_Witness ==
  /\ last.op = "tick" /\ sort_reverse /\ sort_column = "#"
  /\ last.row = 0 /\ last.len >= 1
  /\ Len(filtered_entries) = last.len + 2
  /\ current_row = 0
  /\ LineAt(filtered_entries, current_row) = Len(entries)

\* C4: with an ascending sort and current_row on the last row before the
\* update, an update tick sets current_row to the new last row.
C4_BottomIsFollowed ==
  (last.op = "tick" /\ ~sort_reverse /\ last.len >= 1 /\ last.row = last.len - 1)
    => current_row = Len(filtered_entries) - 1

\* C4 happens: the list grows while its last row is selected
C4_Witness ==
  /\ last.op = "tick" /\ ~sort_reverse
  /\ last.len >= 1 /\ last.row = last.len - 1
  /\ Len(filtered_entries) > last.len
  /\ current_row = Len(filtered_entries) - 1

\* C5: with sort column '#', a descending sort and current_row > 0, an
\* update tick keeps the selection on the same entry: the selected line
\* number is the same before and after, whatever filters are active.
C5_ShiftKeepsEntry ==
  (last.op = "tick" /\ sort_column = "#" /\ sort_reverse /\ last.row > 0)
    => /\ last.line # 0
       /\ LineAt(filtered_entries, current_row) = last.line

\* C5 happens: with a filter active, new matching lines are put above the
\* selected row and current_row moves down with its entry
C5_Witness ==
  /\ last.op = "tick" /\ sort_column = "#" /\ sort_reverse
  /\ FilterActive
  /\ last.row > 0
  /\ Len(filtered_entries) > last.len
  /\ current_row > last.row

\* C6: when a filter removed the selected entry and the filters are cleared
\* right after it, the selection returns to the line number selected before
\* the filter.
C6_ClearRestoresLine ==
  (last.op = "clear" /\ last.orig # 0)
    => LineAt(filtered_entries, current_row) = last.orig

\* C7: when applying a filter removes the selected entry, the entry selected
\* afterwards is one whose line number is nearest to the line number
\* selected before, among the entries of the new filtered_entries.
C7_FilterSelectsNearest ==
  (last.op = "filter" /\ last.line # 0 /\ filtered_entries # <<>>
     /\ last.line \notin LineNumbers(filtered_entries))
    => /\ LineAt(filtered_entries, current_row) # 0
       /\ \A l \in LineNumbers(filtered_entries) :
            Abs(LineAt(filtered_entries, current_row) - last.line) <= Abs(l - last.line)

\* C8: in the Details view, an update tick that brings new entries keeps
\* the selection on the same entry by line number, also under a descending
\* sort with current_row = 0.
C8_DetailsKeepsLine ==
  (last.op = "tick" /\ current_mode = "details" /\ last.line # 0)
    => LineAt(filtered_entries, current_row) = last.line

\* C9: after Up, Down, PageUp, PageDown, Home or End on a non-empty
\* filtered_entries, scroll_row <= current_row < scroll_row + VisibleRows.
C9_RowStaysVisible ==
  (last.op = "nav" /\ status = "running" /\ filtered_entries # <<>>)
    => scroll_row <= current_row /\ current_row < scroll_row + VisibleRows

\* C9 happens: a row key moved the selection below the window and the
\* window scrolled down to it
C9_Witness ==
  /\ last.op = "nav" /\ status = "running"
  /\ scroll_row >= 1
  /\ current_row = scroll_row + VisibleRows - 1

\* C10: after goto-line with target n, whenever an entry of filtered_entries
\* has line number n, current_row is the index of that entry.
C10_GotoSelectsLine ==
  (last.op = "goto" /\ status = "running" /\ HasLine(filtered_entries, last.arg))
    => LineAt(filtered_entries, current_row) = last.arg

\* C11: goto-line with a target above every line number of a non-empty
\* filtered_entries selects the entry with the largest line number; with a
\* target below 1 it changes neither current_row nor scroll_row.
C11_GotoClamp ==
  (last.op = "goto" /\ status = "running")
    => /\ (filtered_entries # <<>>
            /\ \A l \in LineNumbers(filtered_entries) : l < last.arg)
         => /\ LineAt(filtered_entries, current_row) # 0
            /\ \A l \in LineNumbers(filtered_entries) :
                 l <= LineAt(filtered_entries, current_row)
       /\ last.arg < 1
         => current_row = last.row /\ scroll_row = last.scroll

\* C11 happens: a target above every line number moved the selection from
\* another row of a filtered list to the entry with the largest line number
C11_Witness ==
  /\ last.op = "goto" /\ status = "running"
  /\ FilterActive
  /\ Len(filtered_entries) >= 2
  /\ last.arg > Len(entries)
  /\ ~sort_reverse
  /\ current_row = Len(filtered_entries) - 1
  /\ LineAt(filtered_entries, current_row) = Len(entries)

\* C12: after apply_filters, filtered_entries holds exactly the entries that
\* satisfy every non-empty column filter and the search term, each once;
\* with an empty sort column they are in their original order.
C12_FilteredIsPassing ==
  (last.op = "apply" /\ status = "running")
    => /\ \A i \in 1..Len(entries) :
            (matches_filter(entries[i], filters) /\ matches_search(entries[i], search_term))
              <=> \E j \in 1..Len(filtered_entries) : filtered_entries[j] = entries[i]
       /\ \A j \in 1..Len(filtered_entries) :
            \E i \in 1..Len(entries) : filtered_entries[j] = entries[i]
       /\ \A j, k \in 1..Len(filtered_entries) :
            j < k => filtered_entries[j].line_number # filtered_entries[k].line_number
       /\ sort_column = ""
            => \A j, k \in 1..Len(filtered_entries) :
                 j < k => filtered_entries[j].line_number < filtered_entries[k].line_number

\* C12 happens: with a filter and a search term active and no sort column,
\* two of three entries pass, in their original order
C12_Witness ==
  /\ last.op = "apply" /\ status = "running"
  /\ sort_column = ""
  /\ \E k \in DOMAIN filters : filters[k] # <<>>
  /\ search_term # <<>>
  /\ Len(entries) = 3
  /\ Len(filtered_entries) = 2

\* the sort key of an entry under the current sort settings
SortKeyOf(entry) == get_sortable_value(entry, sort_column, column_types[sort_column])

\* C13: with a sort column, apply_filters orders filtered_entries by the sort
\* key, non-decreasing for an ascending and non-increasing for a descending
\* sort, and entries with equal keys keep their original order in both
\* directions.
C13_SortedAndStable ==
  (last.op = "apply" /\ status = "running" /\ sort_column # "")
    => \A j, k \in 1..Len(filtered_entries) :
         j < k =>
           LET a == SortKeyOf(filtered_entries[j])
               b == SortKeyOf(filtered_entries[k])
           IN /\ ~sort_reverse => ~KeyLess(b, a)
              /\ sort_reverse => ~KeyLess(a, b)
              /\ (~KeyLess(a, b) /\ ~KeyLess(b, a))
                   => filtered_entries[j].line_number < filtered_entries[k].line_number

\* C13 happens: a descending sort by level of three entries, two of them
\* with the same key
C13_Witness ==
  /\ last.op = "apply" /\ status = "running"
  /\ sort_column = "level" /\ sort_reverse
  /\ Len(filtered_entries) = 3
  /\ KeyLess(SortKeyOf(filtered_entries[3]), SortKeyOf(filtered_entries[1]))
  /\ \E j \in 1..2 :
       /\ ~KeyLess(SortKeyOf(filtered_entries[j]), SortKeyOf(filtered_entries[j + 1]))
       /\ ~KeyLess(SortKeyOf(filtered_entries[j + 1]), SortKeyOf(filtered_entries[j]))

\* the entries that have the field, in the order they were loaded
Observations(field) == SelectSeq(entries, LAMBDA e : field \in DOMAIN e.data)

\* C14: over any sequence of loads, the merged type of a column is the
\* native type of its first observation as long as all observations agree,
\* and is "str" from the first disagreement on, whatever is observed later.
C14_TypeMerge ==
  \A field \in {FieldNames[i] : i \in 1..Len(FieldNames)} :
    LET obs == Observations(field) IN
      IF obs = <<>> THEN field \notin DOMAIN column_types
      ELSE /\ field \in DOMAIN column_types
           /\ column_types[field] =
                IF \A i \in 1..Len(obs) : obs[i].types[field] = obs[1].types[field]
                  THEN obs[1].types[field]
                  ELSE "str"

\* C14 happens: field n was seen as int, then as str, then as int again, and
\* its merged type is str
C14_Witness ==
  /\ last.op = "load"
  /\ Len(Observations("n")) >= 3
  /\ Observations("n")[1].types["n"] = "int"
  /\ Observations("n")[2].types["n"] = "str"
  /\ Observations("n")[3].types["n"] = "int"
  /\ column_types["n"] = "str"

\* C15: sorting by timestamp when some of the entries to sort have a parsed
\* timestamp and others have none completes without error, and in ascending
\* order the entries without a timestamp come before all the others.
C15_TimestampSortBlankFirst ==
  (/\ last.op = "apply" /\ sort_column = "timestamp" /\ ~sort_reverse
   /\ LET passing == Passing(entries, filters, search_term) IN
        /\ \E i \in 1..Len(passing) : passing[i].timestamp # 0
        /\ \E i \in 1..Len(passing) : passing[i].timestamp = 0)
    => /\ status = "running"
       /\ \A j, k \in 1..Len(filtered_entries) :
            (j < k /\ filtered_entries[j].timestamp # 0)
              => filtered_entries[k].timestamp # 0

\* C16: across any sequence of apply_filters calls, with filters that may
\* leave no entry, all_discovered_columns never loses a name: after each call
\* it is a superset of what it was before.
C16_DiscoveryMonotonic ==
  [][all_discovered_columns \subseteq all_discovered_columns']_vars

\* C16 happens: a filter left no entry, the level column is no longer among
\* the columns, and it is still among the discovered names
C16_Witness ==
  /\ last.op = "apply" /\ status = "running"
  /\ filtered_entries = <<>>
  /\ ~InSeq("level", columns)
  /\ "level" \in all_discovered_columns

\* C20: after any sequence of loads, the entry at index i (from 0) has line
\* number i + 1, blank lines taking no number, and a load leaves the entries
\* loaded before it unchanged and in place.
C20_AppendOnly ==
  /\ [](\A i \in 1..Len(entries) : entries[i].line_number = i)
  /\ [][/\ Len(entries') >= Len(entries)
        /\ SubSeq(entries', 1, Len(entries)) = entries]_vars

\* C20 happens: a later load skipped a blank line and appended the line
\* after it
C20_Witness ==
  /\ last.op = "load" /\ last.arg = 1
  /\ last.len >= 1
  /\ Len(entries) > last.len

\* C17: in every reachable state, after loading, filtering, reordering
\* the columns and after OK or Reset in Column Management, every name in
\* columns is one of the discovered column names.
C17_ColumnsDiscovered ==
  \A i \in 1..Len(columns) : columns[i] \in all_discovered_columns

\* C17 happens: OK applied a selection that Reset had filled with a name no
\* filtered entry has, so columns is not what the detection gave
C17_Witness ==
  /\ last.op = "ok"
  /\ columns # <<>>
  /\ columns # detect_columns(filtered_entries)
  /\ \E i \in 1..Len(columns) : ~InSeq(columns[i], CounterKeys(filtered_entries))

\* the callbacks are invoked one after the other somewhere in the calls
InvokedInOrder(watchers, invoked) ==
  \E k \in 0..Len(invoked) : SubSeq(invoked, k + 1, k + Len(watchers)) = watchers

\* C18: every mutation that changes a visible field of the state adds the
\* name of the field to the changes and invokes the watchers registered for
\* that name, in the order of their registration.
C18_MutationsTracked ==
  [][\A i \in DOMAIN instances \cap DOMAIN instances' :
       \A f \in VisibleFields :
         instances'[i][f] # instances[i][f] =>
           /\ f \in changes(i)'
           /\ InvokedInOrder(Watchers(WATCHERS, f), calls')]_vars

\* C19: a change of a field of one state instance adds no name to the
\* changes of another instance and invokes no watcher registered on another
\* instance, and a state just constructed has no changes.
C19_TrackingPerInstance ==
  [][/\ \A i \in DOMAIN instances : \A j \in DOMAIN instances \ {i} :
          instances'[i] # instances[i] =>
            /\ changes(j)' \subseteq changes(j)
            /\ \A k \in 1..Len(calls') : calls'[k].on # j
     /\ \A i \in DOMAIN instances' \ DOMAIN instances : changes(i)' = {}]_vars

\* C30: after any sequence of filter changes, growth of the data and
\* reordering of the columns, Left and Right complete without a failure, and
\* current_column is one of the columns whenever there are columns.
C30_ColumnNavigationSafe ==
  /\ last.op = "col" => status # "crashed"
  /\ columns # <<>> => InSeq(current_column, columns)

\* the entries on display are the filtered and sorted entries loaded
FilteredReflectsEntries ==
  filtered_entries = apply_filters(entries, filters, search_term, sort_column,
                                   sort_reverse, column_types)

\* C21 (first part): while follow_mode stays true, the lines made available
\* by the source are eventually appended to entries and shown in
\* filtered_entries by a tick
C21_EventuallyLoaded ==
  (follow_mode /\ source # <<>>)
    ~> ((source = <<>> /\ FilteredReflectsEntries) \/ ~follow_mode)

\* C21 (second part): while follow_mode is false no tick occurs, and entries
\* grows only through a reload
C21_NoTickUnlessFollowing ==
  [][/\ last'.op = "tick" /\ last' # last => follow_mode
     /\ Len(entries') > Len(entries) => (follow_mode \/ last'.op = "reload")]_vars

\* C21: while follow_mode is true, lines made available by the source are
\* eventually appended and shown by an idle tick; while it is false no tick
\* occurs and entries grows only through an explicit reload.
C21_FollowLoads == C21_EventuallyLoaded /\ C21_NoTickUnlessFollowing

\* C22: 'd' moves Browse to Details and Details to Browse, 'm' moves Browse
\* to Column Management and Column Management to Browse, and 'h' or '?'
\* moves any mode but Help to Help, and Help back to the mode that was
\* active when Help was opened.
C22_ModeSwitching ==
  last.op = "switch" =>
    /\ (last.arg = "d" /\ last.orig = "browse") => current_mode = "details"
    /\ (last.arg = "d" /\ last.orig = "details") => current_mode = "browse"
    /\ (last.arg = "m" /\ last.orig = "browse") => current_mode = "column_management"
    /\ (last.arg = "m" /\ last.orig = "column_management") => current_mode = "browse"
    /\ (last.arg \in {"h", "?"} /\ last.orig # "help") => current_mode = "help"
    /\ (last.arg \in {"h", "?"} /\ last.orig = "help") => current_mode = last.line

\* C23: Enter in a search, filter or goto prompt always closes the prompt
\* (input_mode None, input_buffer empty, input_column None, input_cursor_pos
\* 0) and applies the filters again, whatever the buffer holds, and a goto
\* buffer that is not a number leaves current_row unchanged.
C23_EnterClosesPrompt ==
  last.op = "enter" =>
    /\ status = "running"
    /\ input_mode = NoneVal /\ input_buffer = <<>>
    /\ input_column = NoneVal /\ input_cursor_pos = 0
    /\ FilteredReflectsEntries
    /\ (last.arg = "goto" /\ ~IsNumeric(last.line)) => current_row = last.row

\* C24: Esc in a prompt cancels it: the prompt is closed with the buffer,
\* the column and the cursor reset, search_term and filters keep the values
\* they had before the prompt was opened, and the program keeps running.
C24_EscCancelsPrompt ==
  last.op = "esc" =>
    /\ input_mode = NoneVal /\ input_buffer = <<>>
    /\ input_column = NoneVal /\ input_cursor_pos = 0
    /\ search_term = last.orig.search_term
    /\ filters = last.orig.filters
    /\ status = "running"

\* C25: filters_count is the number of column filters, plus one when
\* search_term is not empty, after any sequence of filter commits, search
\* commits, clear-filters and reset.
C25_FiltersCounted ==
  status = "running" =>
    filters_count = Cardinality(DOMAIN filters) + (IF search_term = <<>> THEN 0 ELSE 1)

\* C26: 'c' empties filters and sets search_term to the empty string, and
\* applies the filters again, so that filtered_entries holds every entry.
C26_ClearShowsAll ==
  last.op = "clear" =>
    /\ filters = <<>>
    /\ search_term = <<>>
    /\ FilteredReflectsEntries
    /\ LineNumbers(filtered_entries) = 1..Len(entries)
    /\ Len(filtered_entries) = Len(entries)

\* the column under the cursor of the pane that has the focus, None when
\* the pane is empty or the focus is on the buttons
CursorColumn(vm) ==
  IF vm.focus = "available" /\ vm.available_selection < Len(vm.available_columns)
    THEN vm.available_columns[vm.available_selection + 1]
  ELSE IF vm.focus = "selected" /\ vm.selected_selection < Len(vm.selected_columns)
    THEN vm.selected_columns[vm.selected_selection + 1]
  ELSE NoneVal

\* neither list of the view-model changes in the step
ListsUnchanged ==
  /\ view_model'.available_columns = view_model.available_columns
  /\ view_model'.selected_columns = view_model.selected_columns

\* the column is taken out of one list and put in the other in the step
MovedToOtherPane(c) ==
  IF InSeq(c, view_model.available_columns)
    THEN ~InSeq(c, view_model'.available_columns) /\ InSeq(c, view_model'.selected_columns)
    ELSE ~InSeq(c, view_model'.selected_columns) /\ InSeq(c, view_model'.available_columns)

\* C27: in Column Management with the focus on a pane, the first Enter on a
\* column arms it, and a second Enter on the same armed column moves it
\* into the other pane.
C27_SecondEnterMoves ==
  [][(last'.op = "column_enter" /\ CursorColumn(view_model) # NoneVal) =>
       IF view_model.selected_column = CursorColumn(view_model)
         THEN MovedToOtherPane(CursorColumn(view_model))
         ELSE /\ view_model'.selected_column = CursorColumn(view_model)
              /\ ListsUnchanged]_vars

\* C27 as amended: with the focus on a pane, the first Enter on a column
\* arms it and a second Enter on the same armed column disarms it, both
\* lists unchanged; Left moves an armed column of 'selected' into
\* 'available' and Right an armed column of 'available' into 'selected'.
C27_SecondEnterDisarms ==
  [][/\ (last'.op = "column_enter" /\ CursorColumn(view_model) # NoneVal) =>
          /\ ListsUnchanged
          /\ view_model'.selected_column =
               IF view_model.selected_column = CursorColumn(view_model)
                 THEN NoneVal ELSE CursorColumn(view_model)
     /\ (/\ last'.op = "column_left" /\ view_model.focus # "buttons"
         /\ InSeq(view_model.selected_column, view_model.selected_columns)) =>
          MovedToOtherPane(view_model.selected_column)
     /\ (/\ last'.op = "column_right" /\ view_model.focus # "buttons"
         /\ InSeq(view_model.selected_column, view_model.available_columns)) =>
          MovedToOtherPane(view_model.selected_column)]_vars

\* C27 happens: Enter was pressed on the column that was armed, and no
\* column is armed any more
C27_Witness ==
  /\ current_mode = "column_management"
  /\ last.op = "column_enter"
  /\ last.orig # NoneVal
  /\ view_model.selected_column = NoneVal
  /\ view_model.focus # "buttons"

\* the names of the list are in ascending order, as sorting strings orders
\* them
AscendingNames(items) ==
  \A i, j \in 1..Len(items) :
    i < j => ListIndex(NameOrder, items[i]) <= ListIndex(NameOrder, items[j])

\* C28: the 'available' list of Column Management is in ascending
\* alphabetical order after every operation: entering the mode, arming,
\* moving a column between the panes, Up and Down with or without an armed
\* column, discovery of columns, and Reset.
C28_AvailableSorted == AscendingNames(view_model.available_columns)

\* C29: Enter on the OK button sets columns to exactly the 'selected' list,
\* the same names in the same order, and a column that was in 'available'
\* at the OK is listed under 'available' when Column Management is opened
\* again.
C29_OkCommitsSelected ==
  /\ last.op = "ok" => columns = view_model.selected_columns
  /\ (last.op = "mode" /\ current_mode = "column_management" /\ ok_available # NoneVal)
       => \A i \in 1..Len(ok_available) :
            InSeq(ok_available[i], view_model.available_columns)

\* C32: committing a goto prompt with an integer n >= 1 while
\* filtered_entries is empty raises no error and leaves current_row 0 and
\* scroll_row unchanged.
C32_GotoOnEmptyList ==
  [][(last'.op = "goto" /\ last'.arg >= 1 /\ filtered_entries = <<>>) =>
       (status' = "running" /\ current_row' = 0 /\ scroll_row' = scroll_row)]_vars

\* the buffer without its i-th character (counted from 1)
RemoveAt(buf, i) == SubSeq(buf, 1, i - 1) \o SubSeq(buf, i + 1, Len(buf))

\* C36: Backspace in a prompt removes exactly the character before the
\* cursor and moves the cursor left by one; with the cursor at 0 it leaves
\* input_buffer and input_cursor_pos unchanged.
C36_Backspace ==
  [][(last'.op = "key" /\ last'.arg = "BACKSPACE") =>
       IF input_cursor_pos = 0
         THEN input_buffer' = input_buffer /\ input_cursor_pos' = 0
         ELSE /\ input_buffer' = RemoveAt(input_buffer, input_cursor_pos)
              /\ input_cursor_pos' = input_cursor_pos - 1]_vars

\* the printable keys pressed while a prompt is open
PrintableKeys == PromptChars \cup SwitchKeys \cup {"q"}

\* C35: while a prompt is open, every printable key ('q', 'd', 'm', 'h' and
\* '?' included) is inserted into input_buffer at the cursor and advances
\* the cursor by one, and causes neither a mode switch nor a quit.
C35_PrintableInserted ==
  [][(/\ status = "running" /\ current_mode = "browse" /\ input_mode # NoneVal
      /\ last'.op \in {"key", "switch"} /\ last'.arg \in PrintableKeys) =>
       /\ input_buffer' = SubSeq(input_buffer, 1, input_cursor_pos) \o <<last'.arg>>
                            \o SubSeq(input_buffer, input_cursor_pos + 1, Len(input_buffer))
       /\ input_cursor_pos' = input_cursor_pos + 1
       /\ current_mode' = current_mode
       /\ status' = "running"]_vars

\* C39: leaving Column Management through OK or Cancel always lands in
\* Browse, also when Help was opened and closed while Column Management was
\* active, and from there 'h' opens Help and a second 'h' closes it again.
C39_ButtonsLandInBrowse ==
  last.op \in {"ok", "cancel"} =>
    /\ current_mode = "browse"
    /\ switch_mode("h", current_mode, previous_mode) = "help"
    /\ switch_mode("h", switch_mode("h", current_mode, previous_mode), current_mode)
         = "browse"

\* C34: entering Details while filtered_entries is empty raises no error
\* and leaves the field count, the field cursor and the scroll offset of
\* Details at 0.
C34_EnterDetailsOnEmptyList ==
  (last.op = "switch" /\ last.arg = "d" /\ last.orig = "browse" /\ filtered_entries = <<>>) =>
    /\ status = "running"
    /\ details_mode.field_count = 0
    /\ details_mode.current_field = 0
    /\ details_mode.scroll_offset = 0

\* C40: in Details, after any sequence of Up, Down, Left and Right, the
\* field cursor is less than the number of fields of the selected entry, or
\* 0 when it has none, also after Left or Right moved to an entry with
\* fewer fields than the entry shown when Details was entered.
C40_FieldCursorInRange ==
  (status = "running" /\ current_mode = "details"
     /\ ValidIndex(filtered_entries, current_row)) =>
    /\ details_mode.current_field >= 0
    /\ details_mode.current_field
         < Max(1, NumFields(EntryAt(filtered_entries, current_row)))

\* Down was pressed right after Left or Right moved to an entry with fewer
\* fields than the entry Details was entered on, with the cursor on its
\* last field
C40_Witness ==
  /\ status = "running" /\ current_mode = "details"
  /\ last.op = "field" /\ last.arg = "DOWN" /\ last.orig = "nav"
  /\ ValidIndex(filtered_entries, current_row)
  /\ details_mode.field_count > NumFields(EntryAt(filtered_entries, current_row))
  /\ last.row = NumFields(EntryAt(filtered_entries, current_row)) - 1

\* C31: scroll_row stays between 0 and the number of filtered entries after
\* any sequence of navigation keys (Page Down with fewer entries than
\* visible rows included), goto-line, data growth and filtering.
C31_ScrollInRange ==
  status = "running" => (0 <= scroll_row /\ scroll_row <= Len(filtered_entries))

\* C37: after OK commits a column selection in Column Management, columns
\* keeps exactly the committed list, names and order, across the ticks and
\* the applications of the filters that follow, until the next commit,
\* column move or reset.
C37_CommittedColumnsKept ==
  (status = "running" /\ ok_columns # NoneVal) => columns = ok_columns

\* no name occurs twice in the list
NoDuplicates(items) == \A i, j \in 1..Len(items) : items[i] = items[j] => i = j

\* the names listed in either pane of Column Management
ListedColumns == SeqToSet(view_model.selected_columns) \cup SeqToSet(view_model.available_columns)

\* C38: in Column Management, after any sequence of Enter, arrow, Tab and
\* Reset operations and column discoveries, 'selected' and 'available' each
\* hold no name twice, share no name, together hold exactly the columns
\* discovered so far, and the armed column, if any, is one of them.
C38_ListsPartitionColumns ==
  (status = "running" /\ current_mode = "column_management") =>
    /\ NoDuplicates(view_model.selected_columns)
    /\ NoDuplicates(view_model.available_columns)
    /\ SeqToSet(view_model.selected_columns) \cap SeqToSet(view_model.available_columns) = {}
    /\ ListedColumns = all_discovered_columns
    /\ view_model.selected_column # NoneVal => view_model.selected_column \in ListedColumns

\* C33: for the header, the footer and the entries, a change of a watched
\* field after the surface was last drawn has its flag set when the next
\* draw step runs, and the flag is clear right after the surface was drawn:
\* at the end of an iteration the flags of the header and the footer are
\* clear, in Browse that of the entries too, and a surface whose flag is
\* clear shows the present values of the fields it watches.
C33_NoChangeLost ==
  (status = "running" /\ last.op # "init") =>
    /\ ~needs_redraw["header"] /\ ~needs_redraw["footer"]
    /\ current_mode = "browse" => ~needs_redraw["entries"]
    /\ \A s \in Surfaces : ~needs_redraw[s] => drawn[s] = WatchedValues(s)

====
